---- MODULE Spec2Model ----
(***************************************************************************)
(* Time tracker billing core: the time-entry ledger routes, the invoice    *)
(* routes and the PostgreSQL store they share.                             *)
(*                                                                         *)
(* Every request handler is an async function: each `await db.query(...)`  *)
(* is one atomic statement against the store (autocommit), and other       *)
(* requests run between two awaits.  One action of this module is one      *)
(* statement together with the synchronous code that follows it up to the  *)
(* next await (checks, early returns, broadcast, response).                *)
(*                                                                         *)
(* createInvoice runs its writes inside db.withTransaction (BEGIN ..       *)
(* COMMIT) at PostgreSQL's default isolation READ COMMITTED: a statement   *)
(* sees what is committed when it runs, the transaction's own writes are   *)
(* invisible to others until COMMIT, an UPDATE holds its row locks until   *)
(* COMMIT, and an INSERT of a key that another open transaction inserted   *)
(* waits for that transaction.                                             *)
(*                                                                         *)
(* Units.  DECIMAL(10,2) columns hold integer cents.  DECIMAL(4,1)         *)
(* durations hold integer tenths of an hour.  Tax rates are whole          *)
(* percents.  JavaScript numbers are exact integers counted in 1/Scale     *)
(* cent, so that duration * rate and subtotal * rate / 100 are exact, and  *)
(* the store rounds them when it writes a DECIMAL(10,2) column.            *)
(***************************************************************************)
EXTENDS Integers, Sequences, FiniteSets, TLC

VARIABLES
    entries,        \* time_entries: id -> row
    invoices,       \* invoices: id -> row (committed)
    items,          \* invoice_items: id -> row (committed)
    nextEntryId,    \* time_entries_id_seq
    nextInvoiceId,  \* invoices_id_seq (not rolled back)
    nextItemId,     \* invoice_items_id_seq (not rolled back)
    req,            \* request slot -> the handler's position and locals
    events,         \* the calls made to websocket/handler `events`, in order
    clients,        \* websocket registry: principal key -> set of connections
    clientSubscriptions,  \* client_id -> set of connections
    conn,           \* connection -> the socket's state and what was sent to it
    broadcasts      \* number of events published to the sockets

vars == <<entries, invoices, items, nextEntryId, nextInvoiceId, nextItemId, req, events,
          clients, clientSubscriptions, conn, broadcasts>>

\* The store and the requests; the sockets.
dbVars == <<entries, invoices, items, nextEntryId, nextInvoiceId, nextItemId, req, events>>
wsVars == <<clients, clientSubscriptions, conn, broadcasts>>

(***************************************************************************)
(* Bounds                                                                  *)
(***************************************************************************)
\* Requests issued in one behaviour; each slot of req runs one request.
MaxRequests == 2
\* The same for the status routes alone, whose handlers are two steps long.
MaxStatusRequests == 3

\* The request slots of this behaviour.
Reqs == DOMAIN req

(***************************************************************************)
(* Values                                                                  *)
(***************************************************************************)
\* SQL NULL (ids, rates and amounts are never negative).
NULL == -1
\* A field absent from a request body (`undefined`).
Undefined == -2

\* A field that is absent (`undefined`) where the others are strings.
NoString == "undefined"
\* JSON and SQL null where the other values are strings.
NullText == "null"

\* JavaScript-number units per cent.
Scale == 1000

\* numeric -> DECIMAL(10,2): round to the cent, half away from zero.
ToDecimal2(x) ==
    IF x >= 0 THEN (2 * x + Scale) \div (2 * Scale)
    ELSE 0 - (((2 * (0 - x)) + Scale) \div (2 * Scale))

\* parseFloat of a DECIMAL(10,2) column.
ParseDecimal2(c) == c * Scale

\* subtotal * (rate / 100), as in invoices.js lines 243, 361, 619 and 673.
TaxOf(subtotal, rate) == (subtotal * rate) \div 100

RECURSIVE SumOver(_, _)
SumOver(S, f) ==
    IF S = {} THEN 0
    ELSE LET x == CHOOSE y \in S : TRUE IN f[x] + SumOver(S \ {x}, f)

RECURSIVE SumSeq(_)
SumSeq(s) == IF s = <<>> THEN 0 ELSE Head(s) + SumSeq(Tail(s))

Remove(f, k) == [x \in (DOMAIN f) \ {k} |-> f[x]]

(***************************************************************************)
(* Directory (clients, projects): not written by the routes modelled here  *)
(***************************************************************************)
Clients == {1, 2}
ClientRate == (1 :> 10000) @@ (2 :> 10000)
Projects == {1, 2}
ProjectClient == (1 :> 1) @@ (2 :> 2)
\* projects.hourly_rate: NULL = use client rate
ProjectRate == (1 :> 5000) @@ (2 :> NULL)

\* COALESCE(p.hourly_rate, c.hourly_rate, 0) over the LEFT JOINs
EffectiveRate(e) ==
    IF e.project_id /= NULL /\ e.project_id \in Projects /\ ProjectRate[e.project_id] /= NULL
    THEN ProjectRate[e.project_id]
    ELSE IF e.client_id \in Clients /\ ClientRate[e.client_id] /= NULL
         THEN ClientRate[e.client_id]
         ELSE 0

(***************************************************************************)
(* Rows                                                                    *)
(***************************************************************************)
EntryRow(c, p, d) ==
    [client_id |-> c, project_id |-> p, duration |-> d,
     invoiced |-> FALSE, invoice_id |-> NULL]

\* `selected` is history, not a column: the entry ids whose amounts the
\* creating transaction summed into this invoice's subtotal and marked.
\* `entryPart` is history too: the part of the subtotal that came from entries.
InvoiceRow(c, n, sub, rate, tax, tot, st, sel, ep) ==
    [client_id |-> c, invoice_number |-> n, subtotal |-> sub, tax_rate |-> rate,
     tax_amount |-> tax, total |-> tot, status |-> st, selected |-> sel,
     entryPart |-> ep]

ItemRow(inv, q, r, a) == [invoice_id |-> inv, quantity |-> q, rate |-> r, amount |-> a]

Statuses == {"draft", "sent", "paid", "overdue"}

(***************************************************************************)
(* Requests                                                                *)
(***************************************************************************)
Idle == [op |-> "none", pc |-> "idle", status |-> 0]

InFlight(r) == req[r].pc \notin {"idle", "done"}

\* Slots are interchangeable: they are used in order.
CanStart(r) == req[r].pc = "idle" /\ \A q \in Reqs : q < r => req[q].pc /= "idle"

\* res.status(code).json(...): the handler returns.
Respond(r, code) == [req EXCEPT ![r].pc = "done", ![r].status = code]

Emit(type, id, r) == Append(events, [type |-> type, id |-> id, req |-> r])

(***************************************************************************)
(* Transactions in flight                                                  *)
(***************************************************************************)
\* r has inserted its invoice row and not yet committed.
HasPendingInvoice(r) ==
    req[r].op = "createInvoice" /\ req[r].pc \in {"txMark", "txItems", "txCommit"}

\* Rows of time_entries that r's UPDATE locked, held until COMMIT.
RowLocks(r) ==
    IF req[r].op = "createInvoice" /\ req[r].pc \in {"txItems", "txCommit"}
    THEN req[r].locked ELSE {}

LockedByOther(r, ids) == \E q \in Reqs \ {r} : RowLocks(q) \cap ids /= {}

(***************************************************************************)
(* Initial store: a ledger with three entries, and one invoice created     *)
(* earlier for client 2 from entry 3 plus one manual item.                 *)
(***************************************************************************)
SeedEntries ==
    (1 :> EntryRow(1, NULL, 20)) @@
    (2 :> EntryRow(1, 1, 15)) @@
    (3 :> [EntryRow(2, 2, 5) EXCEPT !.invoiced = TRUE, !.invoice_id = 1])

SeedItems == (1 :> ItemRow(1, 1, 333, 333))

SeedInvoice(st) == InvoiceRow(2, 1, 5333, 10, 533, 5866, st, {3}, 5000)

\* The websocket server after setupWebSocket: no connection yet.
MaxConnections == 2
MaxBroadcasts == 1
Conns == 1..MaxConnections

NoSocket ==
    [phase |-> "none", sessionId |-> "none", userType |-> "none", userId |-> NULL,
     clientId |-> NULL, readyState |-> "CONNECTING", received |-> {},
     isAlive |-> TRUE, pinged |-> FALSE, terminated |-> FALSE]

SocketInit ==
    /\ clients = <<>>
    /\ clientSubscriptions = <<>>
    /\ conn = [c \in Conns |-> NoSocket]
    /\ broadcasts = 0

StoreInit(seedStatuses, n) ==
    /\ entries = SeedEntries
    /\ \E st \in seedStatuses : invoices = (1 :> SeedInvoice(st))
    /\ items = SeedItems
    /\ nextEntryId = 4
    /\ nextInvoiceId = 2
    /\ nextItemId = 2
    /\ req = [r \in 1..n |-> Idle]
    /\ events = <<>>

InitWith(seedStatuses, n) == SocketInit /\ StoreInit(seedStatuses, n)

\* The seeded invoice is still a draft or has been sent.
Init == InitWith({"draft", "sent"}, MaxRequests)

\* The seeded invoice has any status the status column admits
\* (init-db.sql line 76), for the handlers that branch on each of them.
InitAnyStatus == InitWith(Statuses, MaxStatusRequests)

(***************************************************************************)
(* websocket/handler: the event broadcaster, as the routes call it.        *)
(* ws.send is a call into the ws library, which returns or throws; the     *)
(* functions below have no try/catch, so a send that throws ends the       *)
(* forEach it is in and every call after it.  `out` carries the sockets    *)
(* (cn) and whether an exception is on its way up (thrown).  Set.forEach   *)
(* visits the members in insertion order; sockets are numbered in the      *)
(* order they connected, and wherever a send can throw the registry was    *)
(* filled in that order.                                                   *)
(***************************************************************************)
\* JSON.stringify of an object: a property whose value is undefined is left out.
Stringify(data) == [f \in {g \in DOMAIN data : data[g] /= NoString} |-> data[f]]

\* As WithoutNotes, with the entry spread and nothing overridden.
WithNotes(entry) == entry

\* { ...entry, internal_notes: undefined }
WithoutNotes(entry) ==
    [f \in (DOMAIN entry) \cup {"internal_notes"} |->
        IF f = "internal_notes" THEN NoString ELSE entry[f]]

\* The members of a Set of sockets in the order forEach visits them.
RECURSIVE IterationOrder(_)
IterationOrder(S) ==
    IF S = {} THEN <<>>
    ELSE LET c == CHOOSE x \in S : \A y \in S : x <= y
         IN <<c>> \o IterationOrder(S \ {c})

\* forEach over `order`: ws.send(messageStr) on every socket whose readyState
\* is OPEN; on a socket of `bad` the send throws.
RECURSIVE SendEach(_, _, _, _)
SendEach(out, order, msg, bad) ==
    IF out.thrown \/ order = <<>> THEN out
    ELSE LET c == Head(order)
         IN IF out.cn[c].readyState /= "OPEN" THEN SendEach(out, Tail(order), msg, bad)
            ELSE IF c \in bad THEN [out EXCEPT !.thrown = TRUE]
            ELSE SendEach([out EXCEPT !.cn[c].received = @ \cup {msg}],
                          Tail(order), msg, bad)

SendTo(out, targets, msg, bad) == SendEach(out, IterationOrder(targets), msg, bad)

\* Lines 222-234: every connection under a key that starts with user:.
broadcastToAllUsers(out, type, data, owner, bad) ==
    SendTo(out, UNION {clients[k] : k \in {q \in DOMAIN clients : q[1] = "user"}},
           [type |-> type, data |-> Stringify(data), via |-> "allUsers", owner |-> owner],
           bad)

\* Lines 208-219: every connection in the subscription set of clientId.
broadcastToClient(out, clientId, type, data, bad) ==
    IF clientId \in DOMAIN clientSubscriptions
    THEN SendTo(out, clientSubscriptions[clientId],
                [type |-> type, data |-> Stringify(data), via |-> "client",
                 owner |-> clientId],
                bad)
    ELSE out

\* A call of an event with nothing thrown yet.
Calm == [cn |-> conn, thrown |-> FALSE]

\* A row that a query did not return (rows[0] is undefined).
NoRow == [f \in {} |-> NoString]

\* Lines 238-264: events.timeEntryCreated and events.timeEntryUpdated.
timeEntryChanged(type, entry, clientId, bad) ==
    broadcastToClient(broadcastToAllUsers(Calm, type, entry, clientId, bad),
                      clientId, type, WithoutNotes(entry), bad)

\* Lines 266-275: events.timeEntryDeleted.
timeEntryDeleted(entryId, clientId, bad) ==
    broadcastToClient(broadcastToAllUsers(Calm, "time_entry:deleted", [id |-> entryId],
                                          clientId, bad),
                      clientId, "time_entry:deleted", [id |-> entryId], bad)

\* As invoiceCreated, with a second publication to the subscribers of the
\* owning client.
invoiceCreatedToClients(invoice, owner, bad) ==
    broadcastToClient(broadcastToAllUsers(Calm, "invoice:created", invoice, owner, bad),
                      owner, "invoice:created", invoice, bad)

\* Lines 277-282: events.invoiceCreated.
invoiceCreated(invoice, owner, bad) ==
    broadcastToAllUsers(Calm, "invoice:created", invoice, owner, bad)

\* Lines 284-296: events.invoiceUpdated; reading .status of undefined throws.
invoiceUpdated(invoice, owner, bad) ==
    LET staff == broadcastToAllUsers(Calm, "invoice:updated", invoice, owner, bad)
    IN IF invoice = NoRow THEN [staff EXCEPT !.thrown = TRUE]
       ELSE IF invoice.status = "sent"
       THEN broadcastToClient(staff, owner, "invoice:sent",
                              [id |-> invoice.id, invoice_number |-> invoice.invoice_number],
                              bad)
       ELSE staff

\* The sockets on which ws.send throws while one event is published: any of
\* the registered sockets that are OPEN.
Throwing == SUBSET {c \in Conns : conn[c].phase = "open" /\ conn[c].readyState = "OPEN"}

\* The rest of a route's try block once its event was called: the response
\* with `code`, or from the catch block 500 when the event threw.
Publish(r, out, code) ==
    /\ conn' = out.cn
    /\ req' = Respond(r, IF out.thrown THEN 500 ELSE code)
    /\ UNCHANGED <<clients, clientSubscriptions, broadcasts>>

\* time_entries and invoices rows as the routes' queries return them and
\* JSON.stringify writes them, every column as its text.
EntryJson(id) ==
    IF id \notin DOMAIN entries' THEN NoRow
    ELSE [id |-> ToString(id), client_id |-> ToString(entries'[id].client_id),
          duration |-> ToString(entries'[id].duration), internal_notes |-> NullText]

InvoiceJson(id) ==
    IF id \notin DOMAIN invoices' THEN NoRow
    ELSE [id |-> ToString(id), client_id |-> ToString(invoices'[id].client_id),
          invoice_number |-> ToString(invoices'[id].invoice_number),
          status |-> invoices'[id].status, total |-> ToString(invoices'[id].total)]

(***************************************************************************)
(* POST /api/invoices  (createInvoice)                                     *)
(***************************************************************************)
\* Request bodies (client_id, time_entry_ids, tax_rate, items): entries of the
\* client, one or two of them, with and without a manual item; an entry of
\* another client; an entry id no row has; a client id no row has; a second
\* manual item without a description (the body's items are not validated);
\* the three entries of the ledger together.
ManualItem == [quantity |-> 2, rate |-> 125, description |-> "work"]
UndescribedItem == [quantity |-> 1, rate |-> 100, description |-> NoString]
InvoiceBody(c, ids, t, its) == [client_id |-> c, ids |-> ids, tax_rate |-> t, items |-> its]
CreateInvoiceBodies ==
    { InvoiceBody(1, {1}, 10, <<>>),
      InvoiceBody(1, {1, 2}, 10, <<>>),
      InvoiceBody(1, {2}, 0, <<ManualItem>>),
      InvoiceBody(1, {}, 10, <<ManualItem>>),
      InvoiceBody(2, {3}, 10, <<>>),
      InvoiceBody(2, {1}, 10, <<>>),
      InvoiceBody(1, {nextEntryId}, 10, <<>>),
      InvoiceBody(1, {2}, 10, <<ManualItem, UndescribedItem>>),
      InvoiceBody(9, {}, 10, <<>>),
      InvoiceBody(1, {1, 2, 3}, 10, <<>>) }

\* As InvoiceTotals, with the loop over the manual items left out.
InvoiceTotalsNoItems(entrySum, its, rate) ==
    LET subtotal == entrySum
        taxAmount == TaxOf(subtotal, rate)
    IN [subtotal |-> subtotal, taxAmount |-> taxAmount, total |-> subtotal + taxAmount]

\* Lines 219-244: subtotal from the entries' sum and the manual items, tax, total.
InvoiceTotals(entrySum, its, rate) ==
    LET itemSum == SumSeq([i \in 1..Len(its) |-> its[i].quantity * its[i].rate * Scale])
        subtotal == entrySum + itemSum
        taxAmount == TaxOf(subtotal, rate)
    IN [subtotal |-> subtotal, taxAmount |-> taxAmount, total |-> subtotal + taxAmount]

\* SELECT SUM(te.duration * COALESCE(p.hourly_rate, c.hourly_rate, 0)) WHERE te.id = ANY(ids)
EntriesSum(ids) ==
    LET rows == ids \cap DOMAIN entries
    IN SumOver(rows, [id \in rows |->
                        entries[id].duration * EffectiveRate(entries[id]) * (Scale \div 10)])

\* The highest invoice number stored (ORDER BY invoice_number DESC LIMIT 1), 0 if none.
LastInvoiceNumber ==
    IF DOMAIN invoices = {} THEN 0
    ELSE CHOOSE n \in {invoices[i].invoice_number : i \in DOMAIN invoices} :
            \A i \in DOMAIN invoices : invoices[i].invoice_number <= n

\* new Date().getFullYear() at the request.
Year == "2026"

\* Lines 210-216: the row's invoice_number, `${year}-${n.toString().padStart(4, '0')}`.
InvoiceNumberText(n) ==
    LET digits == ToString(n)
        padded == IF n < 10 THEN "000" \o digits
                  ELSE IF n < 100 THEN "00" \o digits
                  ELSE IF n < 1000 THEN "0" \o digits
                  ELSE digits
    IN Year \o "-" \o padded

\* Lines 160-178: the handler starts and checks the client.
CreateInvoiceClientCheck(r) ==
    /\ CanStart(r)
    /\ \E b \in CreateInvoiceBodies :
        LET c == b.client_id
            ids == b.ids
            start == [op |-> "createInvoice", pc |-> "entriesCheck", status |-> 0,
                      client_id |-> c, ids |-> ids, tax_rate |-> b.tax_rate,
                      items |-> b.items,
                      number |-> 0, subtotal |-> 0, entryPart |-> 0, taxAmount |-> 0,
                      total |-> 0, summed |-> {}, newId |-> NULL, locked |-> {},
                      firstItemId |-> NULL]
        IN req' = [req EXCEPT ![r] =
                     IF c \notin Clients
                     THEN [start EXCEPT !.pc = "done", !.status = 400]
                     ELSE IF ids = {} THEN [start EXCEPT !.pc = "txNumber"]
                     ELSE start]
    /\ UNCHANGED wsVars
    /\ UNCHANGED <<entries, invoices, items, nextEntryId, nextInvoiceId, nextItemId, events>>

\* Lines 180-199: the selected entries belong to the client and none is invoiced.
CreateInvoiceEntriesCheck(r) ==
    /\ req[r].op = "createInvoice" /\ req[r].pc = "entriesCheck"
    /\ LET rows == {id \in req[r].ids \cap DOMAIN entries :
                        entries[id].client_id = req[r].client_id}
       IN req' = IF Cardinality(rows) /= Cardinality(req[r].ids)
                 THEN Respond(r, 400)
                 ELSE IF \E id \in rows : entries[id].invoiced
                 THEN Respond(r, 400)
                 ELSE [req EXCEPT ![r].pc = "txNumber"]
    /\ UNCHANGED wsVars
    /\ UNCHANGED <<entries, invoices, items, nextEntryId, nextInvoiceId, nextItemId, events>>

\* Lines 202-217 (and 234-244 when no entry is selected): BEGIN, then the
\* next invoice number from the highest committed one.
CreateInvoiceTxNumber(r) ==
    /\ req[r].op = "createInvoice" /\ req[r].pc = "txNumber"
    /\ LET t == InvoiceTotals(0, req[r].items, req[r].tax_rate)
       IN req' = [req EXCEPT ![r].number = LastInvoiceNumber + 1,
                             ![r].pc = IF req[r].ids = {} THEN "txInsert" ELSE "txSum",
                             ![r].subtotal = t.subtotal,
                             ![r].taxAmount = t.taxAmount,
                             ![r].total = t.total]
    /\ UNCHANGED wsVars
    /\ UNCHANGED <<entries, invoices, items, nextEntryId, nextInvoiceId, nextItemId, events>>

\* Lines 219-244: the entries' sum as committed now, then subtotal, tax and total.
CreateInvoiceTxSum(r) ==
    /\ req[r].op = "createInvoice" /\ req[r].pc = "txSum"
    /\ LET sum == EntriesSum(req[r].ids)
           t == InvoiceTotals(sum, req[r].items, req[r].tax_rate)
       IN req' = [req EXCEPT ![r].pc = "txInsert",
                             ![r].summed = req[r].ids \cap DOMAIN entries,
                             ![r].entryPart = sum,
                             ![r].subtotal = t.subtotal,
                             ![r].taxAmount = t.taxAmount,
                             ![r].total = t.total]
    /\ UNCHANGED wsVars
    /\ UNCHANGED <<entries, invoices, items, nextEntryId, nextInvoiceId, nextItemId, events>>

\* As CreateInvoiceTxInsert, on a column invoice_number that is not UNIQUE.
CreateInvoiceTxInsertNotUnique(r) ==
    /\ req[r].op = "createInvoice" /\ req[r].pc = "txInsert"
    /\ nextInvoiceId' = nextInvoiceId + 1
    /\ req' = [req EXCEPT ![r].newId = nextInvoiceId,
                          ![r].pc = IF req[r].ids /= {} THEN "txMark"
                                    ELSE IF req[r].items /= <<>> THEN "txItems"
                                    ELSE "txCommit"]
    /\ UNCHANGED wsVars
    /\ UNCHANGED <<entries, invoices, items, nextEntryId, nextItemId, events>>

\* Lines 246-267: INSERT INTO invoices.  invoice_number is UNIQUE: the insert
\* waits for an open transaction that inserted the same number, and fails
\* (ROLLBACK, 500) when a committed row holds it.
CreateInvoiceTxInsert(r) ==
    /\ req[r].op = "createInvoice" /\ req[r].pc = "txInsert"
    /\ \A q \in Reqs \ {r} : ~(HasPendingInvoice(q) /\ req[q].number = req[r].number)
    /\ nextInvoiceId' = nextInvoiceId + 1
    /\ req' = IF \E i \in DOMAIN invoices : invoices[i].invoice_number = req[r].number
              THEN Respond(r, 500)
              ELSE [req EXCEPT ![r].newId = nextInvoiceId,
                               ![r].pc = IF req[r].ids /= {} THEN "txMark"
                                         ELSE IF req[r].items /= <<>> THEN "txItems"
                                         ELSE "txCommit"]
    /\ UNCHANGED wsVars
    /\ UNCHANGED <<entries, invoices, items, nextEntryId, nextItemId, events>>

\* Lines 269-277: UPDATE time_entries SET invoiced = true, invoice_id = $1
\* WHERE id = ANY($2).  The rows are locked until COMMIT; the statement waits
\* for rows another transaction locked.
CreateInvoiceTxMark(r) ==
    /\ req[r].op = "createInvoice" /\ req[r].pc = "txMark"
    /\ LET matched == req[r].ids \cap DOMAIN entries
       IN /\ ~LockedByOther(r, matched)
          /\ req' = [req EXCEPT ![r].locked = matched,
                                ![r].pc = IF req[r].items /= <<>> THEN "txItems"
                                          ELSE "txCommit"]
    /\ UNCHANGED wsVars
    /\ UNCHANGED <<entries, invoices, items, nextEntryId, nextInvoiceId, nextItemId, events>>

\* The position of the first item whose INSERT fails (description is NOT
\* NULL, init-db.sql line 114), 0 when every INSERT goes through.
FirstFailingItem(its) ==
    IF \A k \in 1..Len(its) : its[k].description /= NoString THEN 0
    ELSE CHOOSE k \in 1..Len(its) :
            /\ its[k].description = NoString
            /\ \A j \in 1..(k - 1) : its[j].description /= NoString

\* As CreateInvoiceTxItems, with every statement committed on its own: the
\* failing INSERT leaves the invoice row and the marks in the store.
CreateInvoiceTxItemsNoRollback(r) ==
    /\ req[r].op = "createInvoice" /\ req[r].pc = "txItems"
    /\ LET bad == FirstFailingItem(req[r].items)
       IN IF bad = 0
          THEN /\ nextItemId' = nextItemId + Len(req[r].items)
               /\ req' = [req EXCEPT ![r].firstItemId = nextItemId, ![r].pc = "txCommit"]
               /\ UNCHANGED <<entries, invoices>>
          ELSE /\ nextItemId' = nextItemId + bad
               /\ req' = Respond(r, 500)
               /\ invoices' = invoices @@
                     (req[r].newId :>
                        InvoiceRow(req[r].client_id, req[r].number, ToDecimal2(req[r].subtotal),
                                   req[r].tax_rate, ToDecimal2(req[r].taxAmount),
                                   ToDecimal2(req[r].total), "draft",
                                   req[r].summed \cap req[r].locked,
                                   ToDecimal2(req[r].entryPart)))
               /\ entries' = [id \in DOMAIN entries |->
                                IF id \in req[r].locked
                                THEN [entries[id] EXCEPT !.invoiced = TRUE,
                                                         !.invoice_id = req[r].newId]
                                ELSE entries[id]]
    /\ UNCHANGED wsVars
    /\ UNCHANGED <<items, nextEntryId, nextInvoiceId, events>>

\* Lines 279-294: INSERT INTO invoice_items, one per manual item.  When an
\* INSERT fails the callback throws: part_010 lines 32-34 ROLLBACK (the
\* invoice row, the marks and the items inserted so far are discarded, the
\* row locks released; the sequence keeps the ids it handed out), and the
\* handler's catch answers 500 (lines 318-321).
CreateInvoiceTxItems(r) ==
    /\ req[r].op = "createInvoice" /\ req[r].pc = "txItems"
    /\ LET bad == FirstFailingItem(req[r].items)
       IN IF bad = 0
          THEN /\ nextItemId' = nextItemId + Len(req[r].items)
               /\ req' = [req EXCEPT ![r].firstItemId = nextItemId, ![r].pc = "txCommit"]
          ELSE /\ nextItemId' = nextItemId + bad
               /\ req' = Respond(r, 500)
    /\ UNCHANGED wsVars
    /\ UNCHANGED <<entries, invoices, items, nextEntryId, nextInvoiceId, events>>

\* As MarkedEntries, with SET invoiced = true alone.
MarkedEntriesFlagOnly(locked, newId) ==
    [id \in DOMAIN entries |->
        IF id \in locked THEN [entries[id] EXCEPT !.invoiced = TRUE] ELSE entries[id]]

\* The rows a committing transaction writes to time_entries.
MarkedEntries(locked, newId) ==
    [id \in DOMAIN entries |->
        IF id \in locked
        THEN [entries[id] EXCEPT !.invoiced = TRUE, !.invoice_id = newId]
        ELSE entries[id]]

\* part_010 line 30: COMMIT makes the invoice, the marks and the items visible.
CreateInvoiceTxCommit(r) ==
    /\ req[r].op = "createInvoice" /\ req[r].pc = "txCommit"
    /\ LET q == req[r]
           n == IF q.firstItemId = NULL THEN 0 ELSE Len(q.items)
           newItems == [k \in q.firstItemId..(q.firstItemId + n - 1) |->
                          LET it == q.items[k - q.firstItemId + 1]
                          IN ItemRow(q.newId, it.quantity, it.rate,
                                     ToDecimal2(it.quantity * it.rate * Scale))]
       IN /\ invoices' = invoices @@
                (q.newId :> InvoiceRow(q.client_id, q.number, ToDecimal2(q.subtotal),
                                       q.tax_rate, ToDecimal2(q.taxAmount),
                                       ToDecimal2(q.total), "draft",
                                       q.summed \cap q.locked, ToDecimal2(q.entryPart)))
          /\ entries' = MarkedEntries(q.locked, q.newId)
          /\ items' = IF n = 0 THEN items ELSE items @@ newItems
    /\ req' = [req EXCEPT ![r].pc = "fullInvoice"]
    /\ UNCHANGED wsVars
    /\ UNCHANGED <<nextEntryId, nextInvoiceId, nextItemId, events>>

\* Lines 299-317: SELECT the invoice again, events.invoiceCreated, 201.  When
\* the row is gone the event carries undefined and reading its fields throws.
CreateInvoiceFull(r) ==
    /\ req[r].op = "createInvoice" /\ req[r].pc = "fullInvoice"
    /\ events' = Emit("invoice:created",
                      IF req[r].newId \in DOMAIN invoices THEN req[r].newId ELSE NULL, r)
    /\ UNCHANGED <<entries, invoices, items, nextEntryId, nextInvoiceId, nextItemId>>
    /\ \E bad \in Throwing :
          Publish(r, invoiceCreated(InvoiceJson(req[r].newId), req[r].client_id, bad),
                  IF req[r].newId \in DOMAIN invoices THEN 201 ELSE 500)

CreateInvoice(r) ==
    \/ CreateInvoiceClientCheck(r)
    \/ CreateInvoiceEntriesCheck(r)
    \/ CreateInvoiceTxNumber(r)
    \/ CreateInvoiceTxSum(r)
    \/ CreateInvoiceTxInsert(r)
    \/ CreateInvoiceTxMark(r)
    \/ CreateInvoiceTxItems(r)
    \/ CreateInvoiceTxCommit(r)
    \/ CreateInvoiceFull(r)

(***************************************************************************)
(* DELETE /api/invoices/:id  (deleteInvoice)                               *)
(***************************************************************************)
\* An id a request names: a stored row's, or one no row has.
InvoiceArgs == (DOMAIN invoices) \cup {nextInvoiceId}

\* As DeleteInvoiceRead, without the check of the status.
DeleteInvoiceReadAnyStatus(r) ==
    /\ CanStart(r)
    /\ \E id \in InvoiceArgs :
        LET start == [op |-> "deleteInvoice", pc |-> "unmark", status |-> 0, id |-> id]
        IN req' = [req EXCEPT ![r] =
                     IF id \notin DOMAIN invoices
                     THEN [start EXCEPT !.pc = "done", !.status = 404]
                     ELSE start]
    /\ UNCHANGED wsVars
    /\ UNCHANGED <<entries, invoices, items, nextEntryId, nextInvoiceId, nextItemId, events>>

\* Lines 407-418: read the invoice; only a draft may be deleted.
DeleteInvoiceRead(r) ==
    /\ CanStart(r)
    /\ \E id \in InvoiceArgs :
        LET start == [op |-> "deleteInvoice", pc |-> "unmark", status |-> 0, id |-> id]
        IN req' = [req EXCEPT ![r] =
                     IF id \notin DOMAIN invoices
                     THEN [start EXCEPT !.pc = "done", !.status = 404]
                     ELSE IF invoices[id].status /= "draft"
                     THEN [start EXCEPT !.pc = "done", !.status = 400]
                     ELSE start]
    /\ UNCHANGED wsVars
    /\ UNCHANGED <<entries, invoices, items, nextEntryId, nextInvoiceId, nextItemId, events>>

\* Lines 420-424: UPDATE time_entries SET invoiced = false, invoice_id = NULL
\* WHERE invoice_id = $1.
DeleteInvoiceUnmark(r) ==
    /\ req[r].op = "deleteInvoice" /\ req[r].pc = "unmark"
    /\ LET matched == {e \in DOMAIN entries : entries[e].invoice_id = req[r].id}
       IN /\ ~LockedByOther(r, matched)
          /\ entries' = [e \in DOMAIN entries |->
                           IF e \in matched
                           THEN [entries[e] EXCEPT !.invoiced = FALSE, !.invoice_id = NULL]
                           ELSE entries[e]]
    /\ req' = [req EXCEPT ![r].pc = "delete"]
    /\ UNCHANGED wsVars
    /\ UNCHANGED <<invoices, items, nextEntryId, nextInvoiceId, nextItemId, events>>

\* Lines 426-429: DELETE FROM invoices.  invoice_items cascade; time_entries
\* still referencing the invoice get invoice_id NULL (ON DELETE SET NULL).
DeleteInvoiceDelete(r) ==
    /\ req[r].op = "deleteInvoice" /\ req[r].pc = "delete"
    /\ LET refs == {e \in DOMAIN entries : entries[e].invoice_id = req[r].id}
       IN /\ ~LockedByOther(r, refs)
          /\ entries' = [e \in DOMAIN entries |->
                           IF e \in refs /\ req[r].id \in DOMAIN invoices
                           THEN [entries[e] EXCEPT !.invoice_id = NULL]
                           ELSE entries[e]]
    /\ invoices' = Remove(invoices, req[r].id)
    /\ items' = [i \in {j \in DOMAIN items : items[j].invoice_id /= req[r].id} |-> items[i]]
    /\ req' = Respond(r, 200)
    /\ UNCHANGED wsVars
    /\ UNCHANGED <<nextEntryId, nextInvoiceId, nextItemId, events>>

DeleteInvoice(r) ==
    \/ DeleteInvoiceRead(r)
    \/ DeleteInvoiceUnmark(r)
    \/ DeleteInvoiceDelete(r)

(***************************************************************************)
(* Time entries: POST /api/time-entries, PUT and DELETE /api/time-entries/:id *)
(* The project lookups read the directory only and are taken together with *)
(* the statement before them.                                              *)
(***************************************************************************)
EntryArgs == (DOMAIN entries) \cup {nextEntryId}

EntryBody(c, p, d) == [client_id |-> c, project_id |-> p, duration |-> d]
CreateEntryBodies ==
    { EntryBody(1, Undefined, 5),
      EntryBody(1, 1, 10),
      EntryBody(1, 2, 10),
      EntryBody(9, Undefined, 5) }

\* As ProjectOfClient, without AND client_id = $2.
ProjectOfAnyClient(p, c) == p \in Projects

\* SELECT id FROM projects WHERE id = $1 AND client_id = $2
ProjectOfClient(p, c) ==
    p \in Projects /\ ProjectClient[p] = c

\* `project_id || null`
OrNull(x) == IF x = Undefined \/ x = 0 THEN NULL ELSE x

\* Lines 186-206: the client exists and the project, if given, is the client's.
CreateEntryCheck(r) ==
    /\ CanStart(r)
    /\ \E b \in CreateEntryBodies :
        LET start == [op |-> "createEntry", pc |-> "insert", status |-> 0,
                      client_id |-> b.client_id, project_id |-> b.project_id,
                      duration |-> b.duration, id |-> NULL]
            projectGiven == b.project_id \notin {Undefined, NULL, 0}
        IN req' = [req EXCEPT ![r] =
                     IF b.client_id \notin Clients
                     THEN [start EXCEPT !.pc = "done", !.status = 400]
                     ELSE IF projectGiven /\ ~ProjectOfClient(b.project_id, b.client_id)
                     THEN [start EXCEPT !.pc = "done", !.status = 400]
                     ELSE start]
    /\ UNCHANGED wsVars
    /\ UNCHANGED <<entries, invoices, items, nextEntryId, nextInvoiceId, nextItemId, events>>

\* Lines 208-232: INSERT INTO time_entries (invoiced and invoice_id take their defaults).
CreateEntryInsert(r) ==
    /\ req[r].op = "createEntry" /\ req[r].pc = "insert"
    /\ entries' = entries @@
          (nextEntryId :> EntryRow(req[r].client_id, OrNull(req[r].project_id), req[r].duration))
    /\ nextEntryId' = nextEntryId + 1
    /\ req' = [req EXCEPT ![r].id = nextEntryId, ![r].pc = "full"]
    /\ UNCHANGED wsVars
    /\ UNCHANGED <<invoices, items, nextInvoiceId, nextItemId, events>>

\* Lines 246-268: SELECT the entry again, events.timeEntryCreated, 201.
CreateEntryFull(r) ==
    /\ req[r].op = "createEntry" /\ req[r].pc = "full"
    /\ events' = Emit("time_entry:created",
                      IF req[r].id \in DOMAIN entries THEN req[r].id ELSE NULL, r)
    /\ UNCHANGED <<entries, invoices, items, nextEntryId, nextInvoiceId, nextItemId>>
    /\ \E bad \in Throwing :
          Publish(r, timeEntryChanged("time_entry:created", EntryJson(req[r].id),
                                      req[r].client_id, bad),
                  IF req[r].id \in DOMAIN entries THEN 201 ELSE 500)

CreateEntry(r) ==
    \/ CreateEntryCheck(r)
    \/ CreateEntryInsert(r)
    \/ CreateEntryFull(r)

EntryPatch(p, d) == [project_id |-> p, duration |-> d]
EntryPatches ==
    { EntryPatch(Undefined, 10),
      EntryPatch(1, Undefined),
      EntryPatch(2, Undefined),
      EntryPatch(Undefined, Undefined) }

\* Lines 279-366: read the entry; an invoiced entry is not edited; the project,
\* if given, is the client's; some field is given.
UpdateEntryRead(r) ==
    /\ CanStart(r)
    /\ \E id \in EntryArgs, b \in EntryPatches :
        LET start == [op |-> "updateEntry", pc |-> "write", status |-> 0, id |-> id,
                      project_id |-> b.project_id, duration |-> b.duration,
                      client_id |-> IF id \in DOMAIN entries
                                    THEN entries[id].client_id ELSE NULL]
            reject(code) == [start EXCEPT !.pc = "done", !.status = code]
        IN req' = [req EXCEPT ![r] =
                     IF id \notin DOMAIN entries THEN reject(404)
                     ELSE IF entries[id].invoiced THEN reject(400)
                     ELSE IF b.project_id \notin {Undefined, NULL}
                             /\ ~ProjectOfClient(b.project_id, entries[id].client_id)
                     THEN reject(400)
                     ELSE IF b.project_id = Undefined /\ b.duration = Undefined
                     THEN reject(400)
                     ELSE start]
    /\ UNCHANGED wsVars
    /\ UNCHANGED <<entries, invoices, items, nextEntryId, nextInvoiceId, nextItemId, events>>

\* Lines 368-375: UPDATE time_entries SET ... WHERE id = $n.
UpdateEntryWrite(r) ==
    /\ req[r].op = "updateEntry" /\ req[r].pc = "write"
    /\ ~LockedByOther(r, {req[r].id})
    /\ entries' = [e \in DOMAIN entries |->
                     IF e = req[r].id
                     THEN [entries[e] EXCEPT
                             !.project_id = IF req[r].project_id = Undefined THEN @
                                            ELSE OrNull(req[r].project_id),
                             !.duration = IF req[r].duration = Undefined THEN @
                                          ELSE req[r].duration]
                     ELSE entries[e]]
    /\ req' = [req EXCEPT ![r].pc = "full"]
    /\ UNCHANGED wsVars
    /\ UNCHANGED <<invoices, items, nextEntryId, nextInvoiceId, nextItemId, events>>

\* Lines 377-399: SELECT the entry again, events.timeEntryUpdated, 200.
UpdateEntryFull(r) ==
    /\ req[r].op = "updateEntry" /\ req[r].pc = "full"
    /\ events' = Emit("time_entry:updated",
                      IF req[r].id \in DOMAIN entries THEN req[r].id ELSE NULL, r)
    /\ UNCHANGED <<entries, invoices, items, nextEntryId, nextInvoiceId, nextItemId>>
    /\ \E bad \in Throwing :
          Publish(r, timeEntryChanged("time_entry:updated", EntryJson(req[r].id),
                                      req[r].client_id, bad),
                  IF req[r].id \in DOMAIN entries THEN 200 ELSE 500)

UpdateEntry(r) ==
    \/ UpdateEntryRead(r)
    \/ UpdateEntryWrite(r)
    \/ UpdateEntryFull(r)

\* As DeleteEntryRead, without the check of the invoiced flag.
DeleteEntryReadNoLock(r) ==
    /\ CanStart(r)
    /\ \E id \in EntryArgs :
        LET start == [op |-> "deleteEntry", pc |-> "delete", status |-> 0, id |-> id,
                      client_id |-> IF id \in DOMAIN entries
                                    THEN entries[id].client_id ELSE NULL]
        IN req' = [req EXCEPT ![r] =
                     IF id \notin DOMAIN entries
                     THEN [start EXCEPT !.pc = "done", !.status = 404]
                     ELSE start]
    /\ UNCHANGED wsVars
    /\ UNCHANGED <<entries, invoices, items, nextEntryId, nextInvoiceId, nextItemId, events>>

\* Lines 410-424: read the entry; an invoiced entry is not deleted.
DeleteEntryRead(r) ==
    /\ CanStart(r)
    /\ \E id \in EntryArgs :
        LET start == [op |-> "deleteEntry", pc |-> "delete", status |-> 0, id |-> id,
                      client_id |-> IF id \in DOMAIN entries
                                    THEN entries[id].client_id ELSE NULL]
        IN req' = [req EXCEPT ![r] =
                     IF id \notin DOMAIN entries
                     THEN [start EXCEPT !.pc = "done", !.status = 404]
                     ELSE IF entries[id].invoiced
                     THEN [start EXCEPT !.pc = "done", !.status = 400]
                     ELSE start]
    /\ UNCHANGED wsVars
    /\ UNCHANGED <<entries, invoices, items, nextEntryId, nextInvoiceId, nextItemId, events>>

\* Lines 426-432: DELETE FROM time_entries, events.timeEntryDeleted, 200.
DeleteEntryDelete(r) ==
    /\ req[r].op = "deleteEntry" /\ req[r].pc = "delete"
    /\ ~LockedByOther(r, {req[r].id})
    /\ entries' = Remove(entries, req[r].id)
    /\ events' = Emit("time_entry:deleted", req[r].id, r)
    /\ UNCHANGED <<invoices, items, nextEntryId, nextInvoiceId, nextItemId>>
    /\ \E bad \in Throwing :
          Publish(r, timeEntryDeleted(ToString(req[r].id), req[r].client_id, bad), 200)

DeleteEntry(r) ==
    \/ DeleteEntryRead(r)
    \/ DeleteEntryDelete(r)

\* The time-entry routes alone.
NextEntries == \E r \in Reqs : CreateEntry(r) \/ UpdateEntry(r) \/ DeleteEntry(r)
SpecEntries == Init /\ [][NextEntries]_vars

NextLedger ==
    \E r \in Reqs :
        \/ CreateInvoice(r) \/ DeleteInvoice(r)
        \/ CreateEntry(r) \/ UpdateEntry(r) \/ DeleteEntry(r)

SpecLedger == Init /\ [][NextLedger]_vars

(***************************************************************************)
(* Invoice status: POST /api/invoices/:id/send and /:id/paid               *)
(***************************************************************************)
\* part_011 lines 284-296: events.invoiceUpdated(invoice) publishes
\* invoice:updated and, when the row's status is 'sent', invoice:sent.  With
\* no row (undefined) the first publish is made and reading .status throws.
InvoiceUpdatedEvents(id, r, threw) ==
    IF id \notin DOMAIN invoices'
    THEN Emit("invoice:updated", NULL, r)
    ELSE IF invoices'[id].status = "sent" /\ ~threw
    THEN Append(Emit("invoice:updated", id, r), [type |-> "invoice:sent", id |-> id, req |-> r])
    ELSE Emit("invoice:updated", id, r)

\* Lines 439-450: read the invoice; only a draft is sent.
SendRead(r) ==
    /\ CanStart(r)
    /\ \E id \in InvoiceArgs :
        LET start == [op |-> "send", pc |-> "write", status |-> 0, id |-> id]
        IN req' = [req EXCEPT ![r] =
                     IF id \notin DOMAIN invoices
                     THEN [start EXCEPT !.pc = "done", !.status = 404]
                     ELSE IF invoices[id].status /= "draft"
                     THEN [start EXCEPT !.pc = "done", !.status = 400]
                     ELSE start]
    /\ UNCHANGED wsVars
    /\ UNCHANGED <<entries, invoices, items, nextEntryId, nextInvoiceId, nextItemId, events>>

\* UPDATE invoices SET status = $st WHERE id = $1
SetStatus(id, st) ==
    [i \in DOMAIN invoices |-> IF i = id THEN [invoices[i] EXCEPT !.status = st]
                               ELSE invoices[i]]

\* Lines 452-466: UPDATE invoices SET status = 'sent' RETURNING *, the event, 200.
SendWrite(r) ==
    /\ req[r].op = "send" /\ req[r].pc = "write"
    /\ invoices' = SetStatus(req[r].id, "sent")
    /\ UNCHANGED <<entries, items, nextEntryId, nextInvoiceId, nextItemId>>
    /\ \E bad \in Throwing :
          LET owner == IF req[r].id \in DOMAIN invoices
                       THEN invoices[req[r].id].client_id ELSE NULL
              row == InvoiceJson(req[r].id)
          IN /\ events' = InvoiceUpdatedEvents(req[r].id, r,
                    broadcastToAllUsers(Calm, "invoice:updated", row, owner, bad).thrown)
             /\ Publish(r, invoiceUpdated(row, owner, bad), 200)

Send(r) ==
    \/ SendRead(r)
    \/ SendWrite(r)

\* As MarkPaidRead, without the check for an invoice that is paid already.
MarkPaidReadNoPaidCheck(r) ==
    /\ CanStart(r)
    /\ \E id \in InvoiceArgs :
        LET start == [op |-> "markPaid", pc |-> "write", status |-> 0, id |-> id]
        IN req' = [req EXCEPT ![r] =
                     IF id \notin DOMAIN invoices
                     THEN [start EXCEPT !.pc = "done", !.status = 404]
                     ELSE IF invoices[id].status = "draft"
                     THEN [start EXCEPT !.pc = "done", !.status = 400]
                     ELSE start]
    /\ UNCHANGED wsVars
    /\ UNCHANGED <<entries, invoices, items, nextEntryId, nextInvoiceId, nextItemId, events>>

\* Lines 476-491: read the invoice; a draft or a paid invoice is not marked paid.
MarkPaidRead(r) ==
    /\ CanStart(r)
    /\ \E id \in InvoiceArgs :
        LET start == [op |-> "markPaid", pc |-> "write", status |-> 0, id |-> id]
        IN req' = [req EXCEPT ![r] =
                     IF id \notin DOMAIN invoices
                     THEN [start EXCEPT !.pc = "done", !.status = 404]
                     ELSE IF invoices[id].status = "draft"
                     THEN [start EXCEPT !.pc = "done", !.status = 400]
                     ELSE IF invoices[id].status = "paid"
                     THEN [start EXCEPT !.pc = "done", !.status = 400]
                     ELSE start]
    /\ UNCHANGED wsVars
    /\ UNCHANGED <<entries, invoices, items, nextEntryId, nextInvoiceId, nextItemId, events>>

\* Lines 493-507: UPDATE invoices SET status = 'paid' RETURNING *, the event, 200.
MarkPaidWrite(r) ==
    /\ req[r].op = "markPaid" /\ req[r].pc = "write"
    /\ invoices' = SetStatus(req[r].id, "paid")
    /\ UNCHANGED <<entries, items, nextEntryId, nextInvoiceId, nextItemId>>
    /\ \E bad \in Throwing :
          LET owner == IF req[r].id \in DOMAIN invoices
                       THEN invoices[req[r].id].client_id ELSE NULL
              row == InvoiceJson(req[r].id)
          IN /\ events' = InvoiceUpdatedEvents(req[r].id, r,
                    broadcastToAllUsers(Calm, "invoice:updated", row, owner, bad).thrown)
             /\ Publish(r, invoiceUpdated(row, owner, bad), 200)

MarkPaid(r) ==
    \/ MarkPaidRead(r)
    \/ MarkPaidWrite(r)

(***************************************************************************)
(* PUT /api/invoices/:id  (update of a draft invoice)                      *)
(***************************************************************************)
\* Request bodies: tax_rate and notes, each given or not.
\* Bodies: a tax rate; notes together with a status, which the schema
\* invoiceUpdate admits (validation.js lines 164-168); a status alone.
InvoicePatch(t, n, st) == [tax_rate |-> t, notes |-> n, status |-> st]
InvoicePatches ==
    { InvoicePatch(20, FALSE, NoString),
      InvoicePatch(Undefined, TRUE, "overdue"),
      InvoicePatch(Undefined, FALSE, "overdue") }

\* Lines 327-379: read the invoice; only a draft is edited; tax_amount and
\* total are computed from the subtotal just read.
UpdateInvoiceRead(r) ==
    /\ CanStart(r)
    /\ \E id \in InvoiceArgs, b \in InvoicePatches :
        LET start == [op |-> "updateInvoice", pc |-> "write", status |-> 0, id |-> id,
                      tax_rate |-> b.tax_rate, taxAmount |-> 0, total |-> 0,
                      body_status |-> b.status]
            reject(code) == [start EXCEPT !.pc = "done", !.status = code]
            subtotal == ParseDecimal2(invoices[id].subtotal)
        IN req' = [req EXCEPT ![r] =
                     IF id \notin DOMAIN invoices THEN reject(404)
                     ELSE IF invoices[id].status /= "draft" THEN reject(400)
                     ELSE IF b.tax_rate = Undefined /\ ~b.notes THEN reject(400)
                     ELSE IF b.tax_rate = Undefined THEN start
                     ELSE [start EXCEPT !.taxAmount = TaxOf(subtotal, b.tax_rate),
                                        !.total = subtotal + TaxOf(subtotal, b.tax_rate)]]
    /\ UNCHANGED wsVars
    /\ UNCHANGED <<entries, invoices, items, nextEntryId, nextInvoiceId, nextItemId, events>>

\* As UpdateInvoiceWrite, with status = $n among the fields when the body has one.
UpdateInvoiceWriteStatus(r) ==
    /\ req[r].op = "updateInvoice" /\ req[r].pc = "write"
    /\ invoices' = [i \in DOMAIN invoices |->
                      IF i /= req[r].id THEN invoices[i]
                      ELSE IF req[r].tax_rate /= Undefined
                      THEN [invoices[i] EXCEPT !.tax_rate = req[r].tax_rate,
                                               !.tax_amount = ToDecimal2(req[r].taxAmount),
                                               !.total = ToDecimal2(req[r].total)]
                      ELSE IF req[r].body_status /= NoString
                      THEN [invoices[i] EXCEPT !.status = req[r].body_status]
                      ELSE invoices[i]]
    /\ req' = Respond(r, IF req[r].id \in DOMAIN invoices THEN 200 ELSE 500)
    /\ UNCHANGED wsVars
    /\ UNCHANGED <<entries, items, nextEntryId, nextInvoiceId, nextItemId, events>>

\* Lines 381-397: UPDATE invoices SET <the given fields> WHERE id = $n RETURNING *.
\* The body's status is not among them (line 341 reads date_due, tax_rate and
\* notes).
UpdateInvoiceWrite(r) ==
    /\ req[r].op = "updateInvoice" /\ req[r].pc = "write"
    /\ invoices' = [i \in DOMAIN invoices |->
                      IF i = req[r].id /\ req[r].tax_rate /= Undefined
                      THEN [invoices[i] EXCEPT !.tax_rate = req[r].tax_rate,
                                               !.tax_amount = ToDecimal2(req[r].taxAmount),
                                               !.total = ToDecimal2(req[r].total)]
                      ELSE invoices[i]]
    /\ req' = Respond(r, IF req[r].id \in DOMAIN invoices THEN 200 ELSE 500)
    /\ UNCHANGED wsVars
    /\ UNCHANGED <<entries, items, nextEntryId, nextInvoiceId, nextItemId, events>>

UpdateInvoice(r) ==
    \/ UpdateInvoiceRead(r)
    \/ UpdateInvoiceWrite(r)

(***************************************************************************)
(* Line items: POST /api/invoices/:id/items, DELETE /:id/items/:itemId     *)
(***************************************************************************)
\* Request bodies: quantity and rate (0 stands for a missing field).
ItemBodies == { [quantity |-> 1, rate |-> 250], [quantity |-> 0, rate |-> 250] }
ItemArgs == (DOMAIN items) \cup {nextItemId}

\* UPDATE invoices SET subtotal = $1, tax_amount = $2, total = $3 WHERE id = $4
SetTotals(id, subtotal, taxAmount, total) ==
    [i \in DOMAIN invoices |->
        IF i = id THEN [invoices[i] EXCEPT !.subtotal = ToDecimal2(subtotal),
                                           !.tax_amount = ToDecimal2(taxAmount),
                                           !.total = ToDecimal2(total)]
        ELSE invoices[i]]

\* Lines 589-608: read the invoice; only a draft takes items; the fields are given.
AddItemRead(r) ==
    /\ CanStart(r)
    /\ \E id \in InvoiceArgs, b \in ItemBodies :
        LET start == [op |-> "addItem", pc |-> "insert", status |-> 0, id |-> id,
                      quantity |-> b.quantity, rate |-> b.rate,
                      amount |-> b.quantity * b.rate * Scale,
                      subtotal |-> 0, tax_rate |-> 0]
            reject(code) == [start EXCEPT !.pc = "done", !.status = code]
        IN req' = [req EXCEPT ![r] =
                     IF id \notin DOMAIN invoices THEN reject(404)
                     ELSE IF invoices[id].status /= "draft" THEN reject(400)
                     ELSE IF b.quantity = 0 \/ b.rate = 0 THEN reject(400)
                     ELSE [start EXCEPT !.subtotal = ParseDecimal2(invoices[id].subtotal),
                                        !.tax_rate = invoices[id].tax_rate]]
    /\ UNCHANGED wsVars
    /\ UNCHANGED <<entries, invoices, items, nextEntryId, nextInvoiceId, nextItemId, events>>

\* Lines 610-615: INSERT INTO invoice_items; the foreign key fails when the
\* invoice is gone (500).
AddItemInsert(r) ==
    /\ req[r].op = "addItem" /\ req[r].pc = "insert"
    /\ nextItemId' = nextItemId + 1
    /\ IF req[r].id \in DOMAIN invoices
       THEN /\ items' = items @@ (nextItemId :> ItemRow(req[r].id, req[r].quantity,
                                                        req[r].rate, ToDecimal2(req[r].amount)))
            /\ req' = [req EXCEPT ![r].pc = "totals"]
       ELSE /\ items' = items
            /\ req' = Respond(r, 500)
    /\ UNCHANGED wsVars
    /\ UNCHANGED <<entries, invoices, nextEntryId, nextInvoiceId, events>>

\* Lines 617-632: the totals from the subtotal read at the start plus the amount.
AddItemTotals(r) ==
    /\ req[r].op = "addItem" /\ req[r].pc = "totals"
    /\ LET newSubtotal == req[r].subtotal + req[r].amount
           taxAmount == TaxOf(newSubtotal, req[r].tax_rate)
       IN invoices' = SetTotals(req[r].id, newSubtotal, taxAmount, newSubtotal + taxAmount)
    /\ req' = Respond(r, 201)
    /\ UNCHANGED wsVars
    /\ UNCHANGED <<entries, items, nextEntryId, nextInvoiceId, nextItemId, events>>

AddItem(r) ==
    \/ AddItemRead(r)
    \/ AddItemInsert(r)
    \/ AddItemTotals(r)

\* Lines 642-658: read the invoice; only a draft loses items.
RemoveItemRead(r) ==
    /\ CanStart(r)
    /\ \E id \in InvoiceArgs, itemId \in ItemArgs :
        LET start == [op |-> "removeItem", pc |-> "item", status |-> 0, id |-> id,
                      itemId |-> itemId, amount |-> 0, subtotal |-> 0, tax_rate |-> 0]
            reject(code) == [start EXCEPT !.pc = "done", !.status = code]
        IN req' = [req EXCEPT ![r] =
                     IF id \notin DOMAIN invoices THEN reject(404)
                     ELSE IF invoices[id].status /= "draft" THEN reject(400)
                     ELSE [start EXCEPT !.subtotal = ParseDecimal2(invoices[id].subtotal),
                                        !.tax_rate = invoices[id].tax_rate]]
    /\ UNCHANGED wsVars
    /\ UNCHANGED <<entries, invoices, items, nextEntryId, nextInvoiceId, nextItemId, events>>

\* Lines 660-667: SELECT the item of this invoice.
RemoveItemSelect(r) ==
    /\ req[r].op = "removeItem" /\ req[r].pc = "item"
    /\ req' = IF req[r].itemId \in DOMAIN items /\ items[req[r].itemId].invoice_id = req[r].id
              THEN [req EXCEPT ![r].pc = "deleteItem",
                               ![r].amount = ParseDecimal2(items[req[r].itemId].amount)]
              ELSE Respond(r, 404)
    /\ UNCHANGED wsVars
    /\ UNCHANGED <<entries, invoices, items, nextEntryId, nextInvoiceId, nextItemId, events>>

\* Line 669: DELETE FROM invoice_items WHERE id = $1.
RemoveItemDelete(r) ==
    /\ req[r].op = "removeItem" /\ req[r].pc = "deleteItem"
    /\ items' = Remove(items, req[r].itemId)
    /\ req' = [req EXCEPT ![r].pc = "totals"]
    /\ UNCHANGED wsVars
    /\ UNCHANGED <<entries, invoices, nextEntryId, nextInvoiceId, nextItemId, events>>

\* Lines 671-681: the totals from the subtotal read at the start minus the amount.
RemoveItemTotals(r) ==
    /\ req[r].op = "removeItem" /\ req[r].pc = "totals"
    /\ LET newSubtotal == req[r].subtotal - req[r].amount
           taxAmount == TaxOf(newSubtotal, req[r].tax_rate)
       IN invoices' = SetTotals(req[r].id, newSubtotal, taxAmount, newSubtotal + taxAmount)
    /\ req' = Respond(r, 200)
    /\ UNCHANGED wsVars
    /\ UNCHANGED <<entries, items, nextEntryId, nextInvoiceId, nextItemId, events>>

RemoveItem(r) ==
    \/ RemoveItemRead(r)
    \/ RemoveItemSelect(r)
    \/ RemoveItemDelete(r)
    \/ RemoveItemTotals(r)

NextStatus == \E r \in Reqs : Send(r) \/ MarkPaid(r)

SpecStatus == InitAnyStatus /\ [][NextStatus]_vars

NextTotals ==
    \E r \in Reqs :
        \/ CreateInvoice(r) \/ UpdateInvoice(r) \/ AddItem(r) \/ RemoveItem(r) \/ Send(r)

SpecTotals == Init /\ [][NextTotals]_vars

\* Deleting invoices next to creating and sending them, from a seeded invoice
\* of any status.
InitDelete == InitWith(Statuses, MaxRequests)
NextDelete == \E r \in Reqs : CreateInvoice(r) \/ DeleteInvoice(r) \/ Send(r)
SpecDelete == InitDelete /\ [][NextDelete]_vars

NextBilling == \E r \in Reqs : CreateInvoice(r) \/ DeleteInvoice(r)

SpecBilling == Init /\ [][NextBilling]_vars

\* The invoice routes that write invoices, from an invoice created earlier.
InitLifecycle == InitWith({"draft"}, MaxRequests)
NextLifecycle ==
    \E r \in Reqs :
        \/ CreateInvoice(r) \/ UpdateInvoice(r) \/ Send(r) \/ MarkPaid(r)
        \/ AddItem(r) \/ RemoveItem(r)
SpecLifecycle == InitLifecycle /\ [][NextLifecycle]_vars

\* POST /api/invoices on a year without invoices: client 1 has three unbilled
\* entries of 2.0, 1.5 and 0.5 hours, the second with or without a project.
InitScenario ==
    /\ SocketInit
    /\ \E p \in {NULL, 1} :
          entries = (1 :> EntryRow(1, NULL, 20)) @@ (2 :> EntryRow(1, p, 15)) @@
                    (3 :> EntryRow(1, NULL, 5))
    /\ invoices = <<>>
    /\ items = <<>>
    /\ nextEntryId = 4
    /\ nextInvoiceId = 1
    /\ nextItemId = 1
    /\ req = [r \in 1..MaxRequests |-> Idle]
    /\ events = <<>>
NextScenario == \E r \in Reqs : CreateInvoice(r)
SpecScenario == InitScenario /\ [][NextScenario]_vars

Next ==
    \E r \in Reqs :
        \/ CreateEntry(r) \/ UpdateEntry(r) \/ DeleteEntry(r)
        \/ CreateInvoice(r) \/ UpdateInvoice(r) \/ DeleteInvoice(r)
        \/ Send(r) \/ MarkPaid(r) \/ AddItem(r) \/ RemoveItem(r)

Spec == Init /\ [][Next]_vars

(***************************************************************************)
(* websocket/handler: the connection registry and the event broadcaster.   *)
(* A connection goes none -> auth (awaiting getSession) -> open -> closed,  *)
(* or to rejected.  `received` is what ws.send has handed to the socket    *)
(* while it lives; in a message, `via` and `owner` are history: the        *)
(* broadcast function that sent it and the client id the event was         *)
(* published for.  A socket that was closed without a session keeps        *)
(* nothing.                                                                *)
(***************************************************************************)
\* sessions rows (init-db.sql lines 40-51) as the query of getSession sees
\* them; the expired row fails expires_at > NOW().
SessionRows ==
    ("staff" :> [user_type |-> "user", user_id |-> 1, client_id |-> NULL, expired |-> FALSE]) @@
    ("client1" :> [user_type |-> "client", user_id |-> NULL, client_id |-> 1, expired |-> FALSE]) @@
    ("expired" :> [user_type |-> "client", user_id |-> NULL, client_id |-> 1, expired |-> TRUE])

\* What a connecting peer presents as cookies.session: nothing, the id of a
\* session row, or an id no row has.
Cookies == {NoString, "unknown"} \cup DOMAIN SessionRows

\* As getSession, without the condition on expires_at.
getSessionAnyAge(sessionId) ==
    IF sessionId \in DOMAIN SessionRows
    THEN SessionRows[sessionId]
    ELSE [user_type |-> "null", user_id |-> NULL, client_id |-> NULL, expired |-> TRUE]

\* part_009 lines 74-86: the session row, or null.
getSession(sessionId) ==
    IF sessionId \in DOMAIN SessionRows /\ ~SessionRows[sessionId].expired
    THEN SessionRows[sessionId]
    ELSE [user_type |-> "null", user_id |-> NULL, client_id |-> NULL, expired |-> TRUE]

\* Lines 58-60: the key of a principal in `clients`.
clientKey(userType, userId, clientId) ==
    IF userType = "user" THEN <<"user", userId>> ELSE <<"client", clientId>>

\* map.get(k).add(c), creating the Set when the key is absent.
MapAdd(map, k, c) ==
    IF k \in DOMAIN map THEN [map EXCEPT ![k] = @ \cup {c}] ELSE (k :> {c}) @@ map

\* set.delete(c) on map.get(k) when present; the key goes with the last member
\* when dropEmpty.
MapDelete(map, k, c, dropEmpty) ==
    IF k \notin DOMAIN map THEN map
    ELSE IF dropEmpty /\ map[k] \ {c} = {} THEN Remove(map, k)
    ELSE [map EXCEPT ![k] = @ \ {c}]

\* Lines 78-85: the welcome message.
Welcome == [type |-> "connected", data |-> <<>>, via |-> "self", owner |-> NULL]

\* Lines 33-43: a peer connects; without a session cookie the socket is closed,
\* otherwise the handler awaits getSession.
Connection(c) ==
    /\ conn[c].phase = "none"
    /\ \A d \in Conns : d < c => conn[d].phase /= "none"
    /\ \E sessionId \in Cookies :
          conn' = [conn EXCEPT ![c] =
                     IF sessionId = NoString
                     THEN [NoSocket EXCEPT !.phase = "rejected", !.readyState = "CLOSED"]
                     ELSE [@ EXCEPT !.phase = "auth", !.sessionId = sessionId,
                                    !.readyState = "OPEN", !.isAlive = TRUE]]
    /\ UNCHANGED <<clients, clientSubscriptions, broadcasts>>
    /\ UNCHANGED dbVars

\* The peer goes away while the handler awaits getSession: the close event
\* fires before line 109 has registered a listener for it.
PeerClosesEarly(c) ==
    /\ conn[c].phase = "auth" /\ conn[c].readyState /= "CLOSED"
    /\ conn' = [conn EXCEPT ![c].readyState = "CLOSED", ![c].pinged = FALSE]
    /\ UNCHANGED <<clients, clientSubscriptions, broadcasts>>
    /\ UNCHANGED dbVars

\* Lines 45-106: getSession returned.  No session: close.  Otherwise the
\* session is stored on the socket, the socket is added to `clients` and, for a
\* client, to its own subscription set, the welcome is sent and the message and
\* close listeners are registered.  On a socket that has closed meanwhile the
\* welcome is not sent and no close event will come.
Authenticated(c) ==
    /\ conn[c].phase = "auth"
    /\ LET session == getSession(conn[c].sessionId)
           key == clientKey(session.user_type, session.user_id, session.client_id)
       IN IF session.user_type = "null"
          THEN /\ conn' = [conn EXCEPT ![c] = [NoSocket EXCEPT !.phase = "rejected",
                                                               !.readyState = "CLOSED"]]
               /\ UNCHANGED <<clients, clientSubscriptions>>
          ELSE /\ clients' = MapAdd(clients, key, c)
               /\ clientSubscriptions' =
                     IF session.user_type = "client"
                     THEN MapAdd(clientSubscriptions, session.client_id, c)
                     ELSE clientSubscriptions
               /\ conn' = [conn EXCEPT ![c] =
                             [@ EXCEPT !.userType = session.user_type,
                                       !.userId = session.user_id,
                                       !.clientId = session.client_id,
                                       !.phase = IF conn[c].readyState = "CLOSED"
                                                 THEN "closed" ELSE "open",
                                       !.received = IF conn[c].readyState = "OPEN"
                                                    THEN {Welcome} ELSE {}]]
    /\ UNCHANGED broadcasts
    /\ UNCHANGED dbVars

\* As HandleMessage, without the check of ws.userType.
HandleMessageAnyType(c) ==
    /\ conn[c].phase = "open"
    /\ \E type \in {"subscribe:client", "unsubscribe:client"}, clientId \in Clients :
          clientSubscriptions' =
              IF type = "subscribe:client"
              THEN MapAdd(clientSubscriptions, clientId, c)
              ELSE MapDelete(clientSubscriptions, clientId, c, FALSE)
    /\ UNCHANGED <<clients, conn, broadcasts>>
    /\ UNCHANGED dbVars

\* Lines 145-190: subscribe:client and unsubscribe:client from connection c,
\* for a client id the message names.
HandleMessage(c) ==
    /\ conn[c].phase = "open"
    /\ \E type \in {"subscribe:client", "unsubscribe:client"}, clientId \in Clients :
          clientSubscriptions' =
              IF conn[c].userType /= "user" THEN clientSubscriptions
              ELSE IF type = "subscribe:client"
              THEN MapAdd(clientSubscriptions, clientId, c)
              ELSE MapDelete(clientSubscriptions, clientId, c, FALSE)
    /\ UNCHANGED <<clients, conn, broadcasts>>
    /\ UNCHANGED dbVars

\* Lines 108-131: the close listener.
OnClose(c) ==
    /\ conn[c].phase = "open"
    /\ clients' = MapDelete(clients,
                            clientKey(conn[c].userType, conn[c].userId, conn[c].clientId),
                            c, TRUE)
    /\ clientSubscriptions' =
          IF conn[c].userType = "client" /\ conn[c].clientId /= NULL
          THEN MapDelete(clientSubscriptions, conn[c].clientId, c, TRUE)
          ELSE clientSubscriptions
    /\ conn' = [conn EXCEPT ![c].phase = "closed", ![c].readyState = "CLOSED",
                            ![c].received = {}, ![c].pinged = FALSE]
    /\ UNCHANGED broadcasts
    /\ UNCHANGED dbVars

\* The rows the time-entry routes hand to the events (part_008 lines 247-262,
\* 378-393), every column as its JSON text: an entry of client 1 that carries
\* an internal note, and one of client 2 whose internal_notes is null.
EntryPayloads ==
    { [id |-> "1", client_id |-> "1", title |-> "design", internal_notes |-> "margin 40%"],
      [id |-> "2", client_id |-> "2", title |-> "review", internal_notes |-> NullText] }
OwnerOf(entry) == IF entry.client_id = "1" THEN 1 ELSE 2

\* events.timeEntryCreated and events.timeEntryUpdated called with a row, every
\* send returning.
TimeEntryEvent(type, entry, clientId) ==
    /\ broadcasts < MaxBroadcasts
    /\ broadcasts' = broadcasts + 1
    /\ conn' = timeEntryChanged(type, entry, clientId, {}).cn
    /\ UNCHANGED <<clients, clientSubscriptions>>
    /\ UNCHANGED dbVars

timeEntryCreated == \E entry \in EntryPayloads :
    TimeEntryEvent("time_entry:created", entry, OwnerOf(entry))

timeEntryUpdated == \E entry \in EntryPayloads :
    TimeEntryEvent("time_entry:updated", entry, OwnerOf(entry))

\* The sockets of wss.clients: accepted and not yet closed.
InServer(c) == conn[c].phase \in {"auth", "open"} /\ conn[c].readyState /= "CLOSED"

\* Lines 19-27: one tick of the heartbeat interval.  A socket whose isAlive
\* is false is terminated (its close event comes later); any other is marked
\* not alive and pinged.  `pinged` is history: a ping the peer has not
\* answered; `terminated`: the heartbeat called terminate.
Heartbeat ==
    /\ \E c \in Conns : InServer(c)
    /\ conn' = [c \in Conns |->
                  IF ~InServer(c) THEN conn[c]
                  ELSE IF ~conn[c].isAlive
                  THEN [conn[c] EXCEPT !.terminated = TRUE, !.readyState = "CLOSING"]
                  ELSE [conn[c] EXCEPT !.isAlive = FALSE, !.pinged = TRUE]]
    /\ UNCHANGED <<clients, clientSubscriptions, broadcasts>>
    /\ UNCHANGED dbVars

\* Lines 93-96: the peer's pong arrives.  The pong listener exists once the
\* connection handler has passed await getSession; before that the pong event
\* has no listener.
Pong(c) ==
    /\ InServer(c) /\ conn[c].readyState = "OPEN" /\ conn[c].pinged
    /\ conn' = [conn EXCEPT ![c].pinged = FALSE,
                            ![c].isAlive = IF conn[c].phase = "open" THEN TRUE ELSE @]
    /\ UNCHANGED <<clients, clientSubscriptions, broadcasts>>
    /\ UNCHANGED dbVars

\* The peer's close frame has arrived or the server has begun to close:
\* readyState is CLOSING until the socket ends and the close event fires.
Closing(c) ==
    /\ conn[c].phase = "open" /\ conn[c].readyState = "OPEN"
    /\ conn' = [conn EXCEPT ![c].readyState = "CLOSING"]
    /\ UNCHANGED <<clients, clientSubscriptions, broadcasts>>
    /\ UNCHANGED dbVars

NextSocket ==
    \/ \E c \in Conns : Connection(c) \/ PeerClosesEarly(c) \/ Authenticated(c)
                          \/ HandleMessage(c) \/ OnClose(c)
    \/ timeEntryCreated
    \/ timeEntryUpdated

NextHeartbeat ==
    \/ \E c \in Conns : Connection(c) \/ PeerClosesEarly(c) \/ Authenticated(c)
                          \/ HandleMessage(c) \/ OnClose(c) \/ Pong(c)
    \/ Heartbeat

\* The sockets alone, next to a store that no request touches.
InitSocket == InitWith({"draft"}, 0)
SpecSocket == InitSocket /\ [][NextSocket]_vars
SpecHeartbeat == InitSocket /\ [][NextHeartbeat]_vars

(***************************************************************************)
(* The routes with sockets connected.                                      *)
(***************************************************************************)
\* A socket that went through lines 33-91 with the session row of sessionId.
OpenSocket(sessionId) ==
    [phase |-> "open", sessionId |-> sessionId,
     userType |-> SessionRows[sessionId].user_type,
     userId |-> SessionRows[sessionId].user_id,
     clientId |-> SessionRows[sessionId].client_id,
     readyState |-> "OPEN", received |-> {Welcome},
     isAlive |-> TRUE, pinged |-> FALSE, terminated |-> FALSE]

\* The registry once the sockets have connected in turn, socket 1 with the
\* staff session and the others with the session of client 1, socket 1
\* having sent subscribe:client for `watched` (for none when NULL) before the
\* next one connected.
SocketsOpen(watched) ==
    /\ conn = [c \in Conns |-> OpenSocket(IF c = 1 THEN "staff" ELSE "client1")]
    /\ clients = (<<"user", 1>> :> {1}) @@ (<<"client", 1>> :> (Conns \ {1}))
    /\ clientSubscriptions =
          (1 :> ((Conns \ {1}) \cup (IF watched = 1 THEN {1} ELSE {}))) @@
          (IF watched = 2 THEN (2 :> {1}) ELSE <<>>)
    /\ broadcasts = 0

\* Requests issued while sockets are connected.
MaxNotifyRequests == 2

InitNotify ==
    /\ \E watched \in {NULL} \cup Clients : SocketsOpen(watched)
    /\ StoreInit({"draft"}, MaxNotifyRequests)

NextNotify ==
    \/ \E r \in Reqs : CreateEntry(r) \/ CreateInvoice(r) \/ Send(r) \/ MarkPaid(r)
    \/ \E c \in Conns : Closing(c) \/ OnClose(c)

SpecNotify == InitNotify /\ [][NextNotify]_vars

\* The invoice routes that publish events, with sockets connected: the staff
\* socket watches client 1, whose own sockets are connected too.
MaxPortalRequests == 2

InitPortal == SocketsOpen(1) /\ StoreInit({"draft"}, MaxPortalRequests)

NextPortal == \E r \in Reqs : CreateInvoice(r) \/ Send(r) \/ MarkPaid(r)

SpecPortal == InitPortal /\ [][NextPortal]_vars

\* client-portal.js lines 277-285 and 311-325: the invoices the portal shows to
\* client c, those of c that are not drafts.
PortalInvoices(c) ==
    {id \in DOMAIN invoices : invoices[id].client_id = c /\ invoices[id].status /= "draft"}

(***************************************************************************)
(* Properties                                                              *)
(***************************************************************************)
Succeeded(r) == req[r].pc = "done" /\ req[r].status \in {200, 201}
Failed(r) == req[r].pc = "done" /\ req[r].status \notin {200, 201}

\* Invoices that exist and were created by a request (not the seeded one).
CreatedInvoices == (DOMAIN invoices) \ {1}

\* Two createInvoice requests, the only requests issued, both finished, for the
\* same client, whose entry sets are unbilled entries of that client and overlap.
OverlappingPair(r1, r2) ==
    /\ r1 /= r2
    /\ \A q \in Reqs \ {r1, r2} : req[q].pc = "idle"
    /\ req[r1].op = "createInvoice" /\ req[r2].op = "createInvoice"
    /\ req[r1].pc = "done" /\ req[r2].pc = "done"
    /\ req[r1].client_id = req[r2].client_id
    /\ req[r1].ids \cap req[r2].ids /= {}
    /\ \A e \in req[r1].ids \cup req[r2].ids :
          /\ e \in DOMAIN SeedEntries
          /\ SeedEntries[e].client_id = req[r1].client_id
          /\ ~SeedEntries[e].invoiced

\* C1: when two createInvoice requests for the same client select overlapping
\* entry sets, then whatever the interleaving of their steps, exactly one of
\* them succeeds and the other fails and leaves no invoice behind.
C1_ExactlyOneSucceeds ==
    \A r1, r2 \in Reqs :
        OverlappingPair(r1, r2) =>
            /\ Succeeded(r1) /= Succeeded(r2)
            /\ Cardinality(CreatedInvoices) = 1

\* A deleteInvoice request has passed its check on invoice i and not finished.
BeingDeleted(i) ==
    \E r \in Reqs : req[r].op = "deleteInvoice" /\ InFlight(r) /\ req[r].id = i

\* Invoices that still exist and counted entry e in their subtotal and marked
\* it.  An invoice in the middle of its deletion counts as deleted already.
BilledOn(e) == {i \in DOMAIN invoices : e \in invoices[i].selected /\ ~BeingDeleted(i)}

\* C2: in every reachable state no time entry is billed on two invoices: each
\* entry was selected (summed into the subtotal and marked invoiced) by at
\* most one invoice that still exists.
C2_NoDoubleBilling ==
    \A e \in DOMAIN entries : Cardinality(BilledOn(e)) <= 1

\* C3: in every reachable state every time entry has invoiced = true if and
\* only if its invoice_id is not NULL.
C3_InvoicedIffInvoiceId ==
    \A e \in DOMAIN entries : entries[e].invoiced <=> (entries[e].invoice_id /= NULL)

\* A created invoice holds an entry, and the seeded invoice was deleted and
\* its entry released.
C3_Witness ==
    /\ \E e \in DOMAIN entries : entries[e].invoiced /\ entries[e].invoice_id \in CreatedInvoices
    /\ 1 \notin DOMAIN invoices
    /\ 3 \in DOMAIN entries /\ ~entries[3].invoiced /\ entries[3].invoice_id = NULL

\* C4: the stored status of an invoice never goes back: from paid it does not
\* change, and from sent it changes to paid only.
C4_NeverBackward ==
    [][\A i \in (DOMAIN invoices) \cap (DOMAIN invoices') :
          /\ invoices[i].status = "paid" => invoices'[i].status = "paid"
          /\ invoices[i].status = "sent" => invoices'[i].status \in {"sent", "paid"}]_vars

\* The step is the start of request r with operation op on a stored invoice.
StartsOn(r, op) ==
    /\ req[r].pc = "idle"
    /\ req'[r].op = op
    /\ req'[r].id \in DOMAIN invoices

\* The step rejected request r: 400, no write to the store, no event.
Rejects(r) ==
    /\ req'[r].pc = "done"
    /\ req'[r].status = 400
    /\ invoices' = invoices /\ items' = items /\ entries' = entries
    /\ events' = events

\* C5: send on an invoice that is not a draft, and markPaid on a draft or a
\* paid invoice, return an error, leave the status as it is and emit no event;
\* markPaid goes through from sent and from overdue and then stores paid,
\* publishes invoice:updated and answers 200.
C5_IllegalTransitionsRejected ==
    [][\A r \in Reqs :
          /\ (StartsOn(r, "send") /\ invoices[req'[r].id].status /= "draft") => Rejects(r)
          /\ (StartsOn(r, "markPaid") /\ invoices[req'[r].id].status \in {"draft", "paid"})
                => Rejects(r)
          /\ (StartsOn(r, "markPaid") /\ invoices[req'[r].id].status \in {"sent", "overdue"})
                => req'[r].pc = "write"
          /\ (req[r].op = "markPaid" /\ req[r].pc = "write" /\ req'[r].pc = "done")
                => /\ req'[r].status = 200
                   /\ invoices'[req[r].id].status = "paid"
                   /\ Len(events') = Len(events) + 1
                   /\ events'[Len(events')] =
                         [type |-> "invoice:updated", id |-> req[r].id, req |-> r]]_vars

\* markPaid was accepted on an overdue invoice, and a send was rejected.
C5_Witness ==
    /\ \E r \in Reqs : /\ req[r].op = "markPaid" /\ req[r].pc = "write"
                       /\ invoices[req[r].id].status = "overdue"
    /\ \E r \in Reqs : req[r].op = "send" /\ req[r].pc = "done" /\ req[r].status = 400

\* No update, addLineItem or removeLineItem request is in flight on invoice i.
Quiet(i) ==
    \A r \in Reqs :
        ~(InFlight(r) /\ req[r].op \in {"updateInvoice", "addItem", "removeItem"}
                      /\ req[r].id = i)

\* C6: for every invoice, whenever no mutation of it is in flight (after
\* createInvoice and after every addLineItem, removeLineItem and tax-rate
\* update, also when they ran concurrently), total = subtotal + tax_amount and
\* tax_amount = subtotal * tax_rate / 100 rounded to the cent.
C6_TotalsConsistent ==
    \A i \in DOMAIN invoices :
        Quiet(i) =>
            /\ invoices[i].total = invoices[i].subtotal + invoices[i].tax_amount
            /\ invoices[i].tax_amount =
                  ToDecimal2(TaxOf(ParseDecimal2(invoices[i].subtotal), invoices[i].tax_rate))

ItemsOf(tbl, i) == {j \in DOMAIN tbl : tbl[j].invoice_id = i}

\* C7: whenever no line-item request is in flight on an invoice, its stored
\* subtotal is the entry part fixed at creation plus the sum of the amounts of
\* the line items stored for it.
C7_SubtotalIsSum ==
    \A i \in DOMAIN invoices :
        Quiet(i) =>
            invoices[i].subtotal =
                invoices[i].entryPart
                + SumOver(ItemsOf(items, i), [j \in ItemsOf(items, i) |-> items[j].amount])

\* C8: once an invoice's status is sent or paid, its subtotal, tax_rate,
\* tax_amount, total and line items never change again.
C8_FrozenAfterSend ==
    [][\A i \in (DOMAIN invoices) \cap (DOMAIN invoices') :
          invoices[i].status \in {"sent", "paid"} =>
              /\ invoices'[i].subtotal = invoices[i].subtotal
              /\ invoices'[i].tax_rate = invoices[i].tax_rate
              /\ invoices'[i].tax_amount = invoices[i].tax_amount
              /\ invoices'[i].total = invoices[i].total
              /\ ItemsOf(items', i) = ItemsOf(items, i)
              /\ \A j \in ItemsOf(items, i) : items'[j] = items[j]]_vars

\* C9: update and delete of a time entry whose invoiced flag is true fail with
\* an error response, leave every field of the entry unchanged, keep the entry
\* in the ledger and emit no event.
C9_InvoicedEntryLocked ==
    [][\A r \in Reqs :
          (/\ req[r].pc = "idle"
           /\ req'[r].op \in {"updateEntry", "deleteEntry"}
           /\ req'[r].id \in DOMAIN entries
           /\ entries[req'[r].id].invoiced)
          => Rejects(r)]_vars

\* An update and a delete of an entry that is still invoiced were both refused.
C9_Witness ==
    \E r1, r2 \in Reqs :
        /\ req[r1].op = "updateEntry" /\ req[r2].op = "deleteEntry"
        /\ Failed(r1) /\ req[r1].status = 400
        /\ Failed(r2) /\ req[r2].status = 400
        /\ req[r1].id \in DOMAIN entries /\ entries[req[r1].id].invoiced
        /\ req[r2].id \in DOMAIN entries /\ entries[req[r2].id].invoiced

\* C10: an entry is never modified or deleted while it is attached to an
\* invoice: as long as it is invoiced it stays in the ledger with the
\* duration and the project it had.
C10_AttachedEntryUntouched ==
    [][\A e \in DOMAIN entries :
          (entries[e].invoiced /\ entries[e].invoice_id /= NULL) =>
              /\ e \in DOMAIN entries'
              /\ entries'[e].duration = entries[e].duration
              /\ entries'[e].project_id = entries[e].project_id]_vars

\* The step ends createInvoice request r before its COMMIT.
FailsBeforeCommit(r) ==
    /\ req[r].pc \in {"idle", "entriesCheck", "txNumber", "txSum", "txInsert",
                      "txMark", "txItems"}
    /\ req'[r].op = "createInvoice"
    /\ req'[r].pc = "done"

\* C11: createInvoice is all-or-nothing: a request that ends at the client
\* check, at the entries check or at a failing statement of the transaction
\* answers an error and leaves no invoice row, no line item, no change to any
\* time entry and no invoice:created event: the step that ends it changes
\* neither the store nor the events, and the request takes no step afterwards.
C11_AllOrNothing ==
    [][\A r \in Reqs :
          FailsBeforeCommit(r) =>
              /\ req'[r].status \in {400, 500}
              /\ invoices' = invoices /\ items' = items /\ entries' = entries
              /\ events' = events]_vars

\* A transaction that had inserted its invoice row and marked an entry failed
\* at a line item and answered 500, and nothing of it is stored; another
\* request was refused at a check.
C11_Witness ==
    /\ \E r \in Reqs :
          /\ req[r].op = "createInvoice" /\ Failed(r) /\ req[r].status = 500
          /\ req[r].locked /= {} /\ req[r].newId /= NULL
          /\ req[r].newId \notin DOMAIN invoices
          /\ \A e \in req[r].locked : ~entries[e].invoiced
    /\ \E r \in Reqs : req[r].op = "createInvoice" /\ Failed(r) /\ req[r].status = 400

\* C12: deleteInvoice on an invoice it reads as draft clears invoiced and
\* invoice_id on every entry that references the invoice and on no other
\* entry, then removes the invoice and its line items and nothing else, and
\* answers 200; on an invoice that is not a draft (sent, paid, overdue) it
\* answers 400 and changes nothing.
C12_DeleteReleasesEntries ==
    [][\A r \in Reqs :
          /\ (StartsOn(r, "deleteInvoice") /\ invoices[req'[r].id].status /= "draft")
                => Rejects(r)
          /\ (StartsOn(r, "deleteInvoice") /\ invoices[req'[r].id].status = "draft")
                => /\ req'[r].pc = "unmark"
                   /\ invoices' = invoices /\ items' = items /\ entries' = entries
          /\ (req[r].op = "deleteInvoice" /\ req[r].pc = "unmark" /\ req'[r].pc /= "unmark")
                => /\ req'[r].pc = "delete"
                   /\ DOMAIN entries' = DOMAIN entries
                   /\ \A e \in DOMAIN entries :
                         entries'[e] = IF entries[e].invoice_id = req[r].id
                                       THEN [entries[e] EXCEPT !.invoiced = FALSE,
                                                               !.invoice_id = NULL]
                                       ELSE entries[e]
                   /\ invoices' = invoices /\ items' = items
          /\ (req[r].op = "deleteInvoice" /\ req[r].pc = "delete" /\ req'[r].pc /= "delete")
                => /\ req'[r].pc = "done" /\ req'[r].status = 200
                   /\ DOMAIN invoices' = (DOMAIN invoices) \ {req[r].id}
                   /\ \A i \in DOMAIN invoices' : invoices'[i] = invoices[i]
                   /\ DOMAIN items' = (DOMAIN items) \ ItemsOf(items, req[r].id)
                   /\ \A j \in DOMAIN items' : items'[j] = items[j]
                   /\ DOMAIN entries' = DOMAIN entries
                   /\ \A e \in DOMAIN entries :
                         /\ entries'[e].invoice_id /= req[r].id
                         /\ entries[e].invoice_id /= req[r].id => entries'[e] = entries[e]]_vars

\* The seeded draft was deleted: its entry is released, its line item is gone,
\* and the entries of the other client are as they were.
C12_Witness ==
    /\ \E r \in Reqs : req[r].op = "deleteInvoice" /\ Succeeded(r) /\ req[r].id = 1
    /\ 1 \notin DOMAIN invoices
    /\ ~entries[3].invoiced /\ entries[3].invoice_id = NULL
    /\ ItemsOf(items, 1) = {}
    /\ entries[1] = SeedEntries[1] /\ entries[2] = SeedEntries[2]

\* Every entry that invoice i billed and that is still in the ledger is locked.
EntriesLocked(i) ==
    \A e \in invoices[i].selected \cap DOMAIN entries :
        entries[e].invoiced /\ entries[e].invoice_id = i

\* C13: deleteInvoice is atomic for the other requests: in every state the
\* entries of an invoice that still exists are locked, and an invoice whose
\* status is sent is never deleted and its entries are never unlocked,
\* whatever the interleaving of deleteInvoice with send.
C13_DeleteAtomic ==
    /\ [](\A i \in DOMAIN invoices : EntriesLocked(i))
    /\ [][\A i \in DOMAIN invoices :
            invoices[i].status = "sent" =>
                /\ i \in DOMAIN invoices'
                /\ \A e \in invoices[i].selected \cap DOMAIN entries :
                      e \in DOMAIN entries' /\ entries'[e].invoiced]_vars

\* C14: no two stored (committed) invoices carry the same invoice number,
\* whatever the interleaving of createInvoice requests.
C14_NumbersUnique ==
    \A i, j \in DOMAIN invoices :
        i /= j => invoices[i].invoice_number /= invoices[j].invoice_number

\* Two transactions derived the same number from the same maximum: one
\* committed and answered 201, the other failed at its INSERT with 500.
C14_Witness ==
    \E r1, r2 \in Reqs :
        /\ r1 /= r2
        /\ req[r1].op = "createInvoice" /\ req[r2].op = "createInvoice"
        /\ req[r1].number = req[r2].number /\ req[r1].number > 0
        /\ Succeeded(r1)
        /\ Failed(r2) /\ req[r2].status = 500
        /\ \E i \in DOMAIN invoices : invoices[i].invoice_number = req[r1].number

\* The number of the invoice that was stored before the first request.
SeedNumber == SeedInvoice("draft").invoice_number

\* C15: within one year an invoice number once issued is never issued again:
\* the numbers of the successful createInvoice requests differ from each
\* other and from the number issued before them, also after the draft that
\* held the highest number has been deleted.
C15_NumbersNeverReissued ==
    \A r1 \in Reqs :
        (req[r1].op = "createInvoice" /\ Succeeded(r1)) =>
            /\ req[r1].number /= SeedNumber
            /\ \A r2 \in Reqs \ {r1} :
                  (req[r2].op = "createInvoice" /\ Succeeded(r2))
                      => req[r2].number /= req[r1].number

\* The messages of time-entry created and updated events handed to socket c.
EntryMessages(c) ==
    {m \in conn[c].received : m.type \in {"time_entry:created", "time_entry:updated"}}

\* Connection c is a member of some set of the registry.
Registered(c) ==
    \/ \E k \in DOMAIN clients : c \in clients[k]
    \/ \E k \in DOMAIN clientSubscriptions : c \in clientSubscriptions[k]

C17_ClientIsolation ==
    /\ [](\A c \in Conns :
            conn[c].userType = "client" =>
                /\ \A k \in DOMAIN clientSubscriptions :
                      c \in clientSubscriptions[k] => k = conn[c].clientId
                /\ \A m \in conn[c].received :
                      m.via = "self" \/ (m.via = "client" /\ m.owner = conn[c].clientId))
    /\ [][\A c \in Conns :
            (conn[c].userType = "client" /\ conn[c].phase = "open" /\ conn'[c].phase = "open")
                => \A k \in Clients :
                      (k \in DOMAIN clientSubscriptions /\ c \in clientSubscriptions[k])
                      <=> (k \in DOMAIN clientSubscriptions' /\ c \in clientSubscriptions'[k])]_vars

\* A client connection is open, and an event published for another client was
\* sent to a staff connection.
C17_Witness ==
    \E c, d \in Conns :
        /\ conn[c].userType = "client" /\ conn[c].phase = "open"
        /\ c \in clientSubscriptions[conn[c].clientId]
        /\ conn[d].userType = "user"
        /\ \E m \in conn[d].received : m.via = "allUsers" /\ m.owner /= conn[c].clientId

\* C18: a connection that has closed is a member of no set of the registry,
\* neither under its principal key nor in a subscription set, and nothing is
\* sent to it.
C18_ClosedIsUnregistered ==
    \A c \in Conns :
        conn[c].phase = "closed" => (~Registered(c) /\ conn[c].received = {})

\* The session ids that name a row that has not expired.
ValidSessions == {sid \in DOMAIN SessionRows : ~SessionRows[sid].expired}

\* C19: a connection without a session cookie, or with the id of an unknown
\* or expired session, is closed, is never in the registry and is sent
\* nothing; every connection in the registry carries the principal of a
\* session that was valid when it connected.
C19_OnlyValidSessions ==
    \A c \in Conns :
        /\ conn[c].phase \in {"none", "auth", "rejected"}
              => (~Registered(c) /\ conn[c].received = {})
        /\ conn[c].phase = "rejected" => conn[c].readyState = "CLOSED"
        /\ (Registered(c) \/ conn[c].phase \in {"open", "closed"})
              => /\ conn[c].sessionId \in ValidSessions
                 /\ conn[c].userType = SessionRows[conn[c].sessionId].user_type
                 /\ conn[c].userId = SessionRows[conn[c].sessionId].user_id
                 /\ conn[c].clientId = SessionRows[conn[c].sessionId].client_id

\* One connection was turned away, another is open and registered.
C19_Witness ==
    \E c, d \in Conns :
        /\ conn[c].phase = "rejected"
        /\ conn[d].phase = "open" /\ Registered(d)

\* The operations that publish a change event, and the type each publishes.
ChangeEvent ==
    ("createEntry" :> "time_entry:created") @@ ("updateEntry" :> "time_entry:updated") @@
    ("deleteEntry" :> "time_entry:deleted") @@ ("createInvoice" :> "invoice:created") @@
    ("send" :> "invoice:updated") @@ ("markPaid" :> "invoice:updated")

\* The positions in `events` of the events request r published.
EventsOf(r) == {k \in 1..Len(events) : events[k].req = r}

\* C20: for time-entry create, update and delete, createInvoice, send and
\* markPaid, a request publishes its change event in its last step, after its
\* write; a request that succeeded has published it exactly once, and a
\* request that failed or was rejected has published nothing.
C20_EventAfterCommit ==
    \A r \in Reqs :
        req[r].op \in DOMAIN ChangeEvent =>
            /\ InFlight(r) => EventsOf(r) = {}
            /\ Succeeded(r) =>
                  Cardinality({k \in EventsOf(r) : events[k].type = ChangeEvent[req[r].op]}) = 1
            /\ Failed(r) => EventsOf(r) = {}

\* The step of request r in which its event is published and its response is
\* written, taken after its store write was committed: the INSERT of
\* createEntry, the COMMIT of createInvoice, the UPDATE of send and markPaid
\* on a row that exists.
PublishesCommitted(r) ==
    /\ req'[r].pc = "done"
    /\ \/ req[r].op = "createEntry" /\ req[r].pc = "full" /\ req[r].id \in DOMAIN entries
       \/ req[r].op = "createInvoice" /\ req[r].pc = "fullInvoice"
             /\ req[r].newId \in DOMAIN invoices
       \/ req[r].op \in {"send", "markPaid"} /\ req[r].pc = "write"
             /\ req[r].id \in DOMAIN invoices

\* C21: a request whose store write has committed returns its success
\* response, whatever happens while its event is broadcast; a send that
\* throws is not surfaced to the caller.
C21_BroadcastFailureSwallowed ==
    [][\A r \in Reqs : PublishesCommitted(r) => req'[r].status \in {200, 201}]_vars

\* The sockets an event of request r is addressed to: the staff sockets, and
\* for a time-entry event and for invoice:sent the subscribers of the owning
\* client.
StaffSockets == UNION {clients[k] : k \in {q \in DOMAIN clients : q[1] = "user"}}
Subscribers(k) == IF k \in DOMAIN clientSubscriptions THEN clientSubscriptions[k] ELSE {}
Recipients(r) ==
    IF req[r].op = "createEntry" THEN StaffSockets \cup Subscribers(req[r].client_id)
    ELSE IF req[r].op = "send"
    THEN StaffSockets \cup Subscribers(invoices[req[r].id].client_id)
    ELSE StaffSockets

\* Socket d holds, after the step, a message of r's event.
Delivered(d, r) ==
    LET id == ToString(IF req[r].op = "createInvoice" THEN req[r].newId ELSE req[r].id)
        types == IF req[r].op = "createEntry" THEN {"time_entry:created"}
                 ELSE IF req[r].op = "createInvoice" THEN {"invoice:created"}
                 ELSE {"invoice:updated", "invoice:sent"}
    IN \E m \in conn'[d].received :
          m.type \in types /\ "id" \in DOMAIN m.data /\ m.data.id = id

InRegistry(d) ==
    \/ \E k \in DOMAIN clients' : d \in clients'[k]
    \/ \E k \in DOMAIN clientSubscriptions' : d \in clientSubscriptions'[k]

\* C22: in one broadcast every recipient that is open receives the event, and
\* a recipient that does not (closed, closing, or its send failed) is in no
\* set of the registry afterwards; the others are served all the same.
C22_OthersStillServed ==
    [][\A r \in Reqs : PublishesCommitted(r) =>
          \A d \in Recipients(r) :
              \/ conn[d].readyState = "OPEN" /\ Delivered(d, r)
              \/ ~InRegistry(d)]_vars

\* Socket c is in a set of the registry.
Listed(c) ==
    \/ \E k \in DOMAIN clients : c \in clients[k]
    \/ \E k \in DOMAIN clientSubscriptions : c \in clientSubscriptions[k]

\* A step in which the heartbeat ticked.
Ticked ==
    \E c \in Conns : \/ ~conn[c].pinged /\ conn'[c].pinged
                     \/ ~conn[c].terminated /\ conn'[c].terminated

\* C23: at a tick every connection that has left its last ping unanswered is
\* terminated, every other connection is pinged and not terminated, so a
\* connection that answers every ping is never terminated; and a terminated
\* connection is, once its close event was handled, in no set of the registry.
C23_HeartbeatRemovesOnlyTheDead ==
    /\ [][Ticked =>
            \A c \in Conns : InServer(c) /\ ~conn[c].terminated =>
                IF conn[c].pinged THEN conn'[c].terminated
                ELSE conn'[c].pinged /\ ~conn'[c].terminated]_vars
    /\ [](\A c \in Conns :
            conn[c].terminated /\ conn[c].readyState = "CLOSED" => ~Listed(c))

\* The invoice:sent notices published so far for invoice id.
SentNotices(id) ==
    {i \in DOMAIN events : events[i].type = "invoice:sent" /\ events[i].id = id}

\* The text of a number, back as the number.
IdOf(text) == CHOOSE id \in 0..nextInvoiceId : ToString(id) = text

\* C24: an invoice causes at most one invoice:sent notice, also under
\* concurrent send requests; the notice carries the invoice id and number only
\* and reaches subscribers of the owning client only; markPaid publishes no
\* invoice:sent.
C24_OneSentNotice ==
    /\ [](\A id \in DOMAIN invoices : Cardinality(SentNotices(id)) <= 1)
    /\ [](\A c \in Conns : \A m \in conn[c].received :
            m.type = "invoice:sent" =>
                /\ DOMAIN m.data = {"id", "invoice_number"}
                /\ m.via = "client"
                /\ c \in Subscribers(m.owner)
                /\ m.owner = invoices[IdOf(m.data.id)].client_id)
    /\ [][\A r \in Reqs : req[r].op = "markPaid" /\ req[r].pc = "write" =>
            \A i \in (DOMAIN events') \ (DOMAIN events) :
                events'[i].type /= "invoice:sent"]_vars

\* C25: when createInvoice has committed and answers 201, invoice:created has
\* gone to every open staff connection with the full record and, as a second
\* publication, to every open connection subscribed to the invoice's owning
\* client.
C25_CreatedReachesSubscribers ==
    [][\A r \in Reqs :
          (req[r].op = "createInvoice" /\ req[r].pc = "fullInvoice" /\ req'[r].status = 201)
          => LET has(d, via) ==
                   \E m \in conn'[d].received :
                       /\ m.type = "invoice:created" /\ m.via = via
                       /\ m.data.id = ToString(req[r].newId)
             IN /\ \A d \in StaffSockets :
                      conn[d].readyState = "OPEN" =>
                          has(d, "allUsers") /\ InvoiceJson(req[r].newId) \in
                              {m.data : m \in conn'[d].received}
                /\ \A d \in Subscribers(req[r].client_id) :
                      conn[d].readyState = "OPEN" => has(d, "client")]_vars

\* The invoice events among the messages a socket holds.
InvoiceMessages(c) ==
    {m \in conn[c].received :
        m.type \in {"invoice:created", "invoice:updated", "invoice:sent"}}

\* C30: invoice:created and invoice:updated reach staff connections only; the
\* one invoice event that goes through a subscription set is invoice:sent; a
\* client-type connection gets it for an invoice of its own client, at a
\* moment when the stored status is sent and the client portal lists the
\* invoice, and never holds an event about an invoice that is a draft.
C30_NoDraftToClients ==
    /\ [](\A c \in Conns : \A m \in InvoiceMessages(c) :
            /\ m.type /= "invoice:sent" => m.via = "allUsers" /\ conn[c].userType = "user"
            /\ m.via = "client" => m.type = "invoice:sent"
            /\ conn[c].userType = "client" =>
                  /\ IdOf(m.data.id) \in PortalInvoices(conn[c].clientId)
                  /\ invoices[IdOf(m.data.id)].status /= "draft")
    /\ [][\A c \in Conns : \A m \in InvoiceMessages(c)' \ InvoiceMessages(c) :
            m.type = "invoice:sent" => invoices'[IdOf(m.data.id)].status = "sent"]_vars

\* A socket of client 1 holds the invoice:sent notice of an invoice that was
\* created for client 1 and then sent, while the staff socket holds the
\* invoice:created event of that invoice.
C30_Witness ==
    \E c, d \in Conns : \E m \in InvoiceMessages(c), n \in InvoiceMessages(d) :
        /\ conn[c].userType = "client" /\ m.type = "invoice:sent"
        /\ conn[d].userType = "user" /\ n.type = "invoice:created"
        /\ n.data.id = m.data.id /\ n.data.status = "draft"

\* C29: once the connection handler of a socket has finished, the socket is
\* in the clients map or in a subscription set only while it is open; a socket
\* that closed during the session lookup is not left in the registry.
C29_RegistryHoldsOpenSockets ==
    \A c \in Conns :
        (conn[c].phase \notin {"none", "auth"} /\ Listed(c))
            => conn[c].readyState /= "CLOSED"

\* C28: the invoice routes store the statuses draft, sent and paid and never
\* overdue, and an invoice is created as a draft.
C28_OverdueNeverStored ==
    /\ [](\A id \in DOMAIN invoices : invoices[id].status \in {"draft", "sent", "paid"})
    /\ [][\A id \in (DOMAIN invoices') \ (DOMAIN invoices) :
            invoices'[id].status = "draft"]_vars

\* An update whose body asked for the status overdue has succeeded on a draft
\* invoice, which was sent afterwards: the invoice went from draft to sent and
\* was never overdue.
C28_Witness ==
    \E r \in Reqs :
        /\ req[r].op = "updateInvoice" /\ Succeeded(r)
        /\ req[r].body_status = "overdue"
        /\ invoices[req[r].id].status = "sent"

\* Project p is given and is not a project of client c.
ForeignProject(p, c) ==
    p \notin {Undefined, NULL, 0} /\ (p \notin Projects \/ ProjectClient[p] /= c)

\* C27: every time entry belongs to an existing client and its project, if it
\* has one, is a project of that client; a create for a missing client or
\* with another client's project, and an update with another client's
\* project, are answered with an error, write no entry and emit no event.
C27_EntriesBelongToClient ==
    /\ [](\A e \in DOMAIN entries :
            /\ entries[e].client_id \in Clients
            /\ entries[e].project_id /= NULL =>
                  /\ entries[e].project_id \in Projects
                  /\ ProjectClient[entries[e].project_id] = entries[e].client_id)
    /\ [][\A r \in Reqs : req[r].pc = "idle" =>
            /\ (/\ req'[r].op = "createEntry"
                /\ \/ req'[r].client_id \notin Clients
                   \/ ForeignProject(req'[r].project_id, req'[r].client_id))
               => /\ req'[r].pc = "done" /\ req'[r].status = 400
                  /\ UNCHANGED <<entries, events>>
            /\ (/\ req'[r].op = "updateEntry"
                /\ req'[r].id \in DOMAIN entries
                /\ ForeignProject(req'[r].project_id, entries[req'[r].id].client_id))
               => /\ req'[r].pc = "done" /\ req'[r].status = 400
                  /\ UNCHANGED <<entries, events>>]_vars
    /\ [][\A r \in Reqs : req[r].pc = "done" => req'[r] = req[r]]_vars

\* A create with a project of another client and an update of an open entry
\* with a project of another client have both been rejected.
C27_Witness ==
    \E r, q \in Reqs :
        /\ req[r].op = "createEntry" /\ Failed(r) /\ req[r].client_id \in Clients
        /\ ForeignProject(req[r].project_id, req[r].client_id)
        /\ req[q].op = "updateEntry" /\ Failed(q) /\ req[q].id \in DOMAIN entries
        /\ ~entries[req[q].id].invoiced
        /\ ForeignProject(req[q].project_id, entries[req[q].id].client_id)

(***************************************************************************)
(* createInvoice's arithmetic                                              *)
(***************************************************************************)
\* duration x rate of one entry, in JavaScript-number units: the project's
\* rate if the entry has a project with a rate, else the client's, else zero.
EntryAmount(e) ==
    LET rate == IF e.project_id /= NULL /\ ProjectRate[e.project_id] /= NULL
                THEN ProjectRate[e.project_id]
                ELSE IF ClientRate[e.client_id] /= NULL THEN ClientRate[e.client_id]
                ELSE 0
    IN e.duration * rate * (Scale \div 10)

ItemAmount(it) == it.quantity * it.rate * Scale

\* The subtotal the claim states for the body of request r, before storing.
StatedSubtotal(r) ==
    SumOver(req[r].ids, [id \in req[r].ids |-> EntryAmount(entries[id])])
    + SumSeq([k \in 1..Len(req[r].items) |-> ItemAmount(req[r].items[k])])

\* r is the scenario: the three entries, all at rate 100, taxRate 10, no item.
IsScenario(r) ==
    /\ req[r].ids = {1, 2, 3} /\ req[r].tax_rate = 10 /\ req[r].items = <<>>
    /\ \A id \in {1, 2, 3} : EntryAmount(entries[id]) = entries[id].duration * 10000 * (Scale \div 10)

\* C26 (stored row): the invoice a successful createInvoice stored has
\* status draft, subtotal = sum over the selected entries of duration x
\* effective rate plus sum over the manual items of quantity x rate,
\* tax_amount = subtotal x taxRate / 100 and total = subtotal + tax_amount
\* (each stored to the cent), and its number is the one the transaction
\* generated; for the scenario that is 400.00, 40.00 and 440.00.
C26_StoredTotals ==
    \A r \in Reqs :
        (req[r].op = "createInvoice" /\ Succeeded(r)) =>
            /\ req[r].newId \in DOMAIN invoices
            /\ LET row == invoices[req[r].newId]
                   sub == StatedSubtotal(r)
                   tax == (sub * req[r].tax_rate) \div 100
               IN /\ row.status = "draft"
                  /\ row.client_id = req[r].client_id
                  /\ row.subtotal = ToDecimal2(sub)
                  /\ row.tax_amount = ToDecimal2(tax)
                  /\ row.total = ToDecimal2(sub + tax)
                  /\ row.invoice_number = req[r].number
                  /\ IsScenario(r) =>
                        /\ row.subtotal = 40000
                        /\ row.tax_amount = 4000
                        /\ row.total = 44000

\* C26 (number): a transaction that finds no invoice of the year generates
\* the number <year>-0001.
C26_FirstNumber ==
    \A r \in Reqs :
        (req[r].op = "createInvoice" /\ req[r].pc = "txNumber" /\ req'[r].pc /= "txNumber"
         /\ DOMAIN invoices = {}) =>
            InvoiceNumberText(req'[r].number) = Year \o "-0001"

\* C26: createInvoice stores subtotal, tax_amount and total as stated, with
\* status draft; three entries of 2.0, 1.5 and 0.5 hours at rate 100 with
\* taxRate 10 and no earlier invoice give 400, 40, 440 and <year>-0001.
C26_CreateInvoiceArithmetic == []C26_StoredTotals /\ [][C26_FirstNumber]_vars

\* The scenario's request has answered 201 and its row is the year's first.
C26_Witness ==
    \E r \in Reqs :
        /\ req[r].op = "createInvoice" /\ Succeeded(r) /\ IsScenario(r)
        /\ req[r].newId \in DOMAIN invoices
        /\ InvoiceNumberText(invoices[req[r].newId].invoice_number) = Year \o "-0001"
        /\ invoices[req[r].newId].subtotal = 40000
        /\ invoices[req[r].newId].tax_amount = 4000
        /\ invoices[req[r].newId].total = 44000
        /\ invoices[req[r].newId].status = "draft"

====
